---- MODULE Spec2Model ----
(***************************************************************************)
(* Model of the query/config resolution engine (config-utils.ts):          *)
(* parseQueryUses and its three resolvers, runResolveQueries, loadConfig,  *)
(* getDefaultConfig, initConfig, saveConfig and getConfig.                 *)
(*                                                                         *)
(* A JavaScript string is a sequence of one-character strings, so that     *)
(* trim, split, startsWith, endsWith and indexOf are computed as the code  *)
(* computes them.  An optional value is a sequence of length 0 or 1.       *)
(***************************************************************************)
EXTENDS Integers, Sequences, FiniteSets, TLC

----------------------------------------------------------------------------
(* Bounds of the model *)

\* longest generated 'uses' string
MaxUsesLen == 5
\* most path segments in a generated local path
MaxSegs == 3
\* most resolutions applied to one accumulator in SpecResolve
MaxResolves == 3

----------------------------------------------------------------------------
(* JavaScript string primitives *)

WhiteSpace == {" ", "\t"}

Undefined == <<>>

Some(x) == <<x>>

StartsWith(s, p) ==
  /\ Len(p) <= Len(s)
  /\ SubSeq(s, 1, Len(p)) = p

EndsWith(s, p) ==
  /\ Len(p) <= Len(s)
  /\ SubSeq(s, Len(s) - Len(p) + 1, Len(s)) = p

\* String.prototype.indexOf for a one-character needle; 0 stands for -1
IndexOf(s, c) ==
  IF \E i \in 1..Len(s) : s[i] = c
  THEN CHOOSE i \in 1..Len(s) : s[i] = c /\ \A j \in 1..(i - 1) : s[j] # c
  ELSE 0

Contains(s, c) == IndexOf(s, c) # 0

RECURSIVE TrimStart(_)
TrimStart(s) ==
  IF s # <<>> /\ Head(s) \in WhiteSpace THEN TrimStart(Tail(s)) ELSE s

RECURSIVE TrimEnd(_)
TrimEnd(s) ==
  IF s # <<>> /\ s[Len(s)] \in WhiteSpace
  THEN TrimEnd(SubSeq(s, 1, Len(s) - 1))
  ELSE s

Trim(s) == TrimEnd(TrimStart(s))

\* String.prototype.split for a one-character separator
RECURSIVE Split(_, _)
Split(s, c) ==
  LET i == IndexOf(s, c)
  IN IF i = 0
     THEN <<s>>
     ELSE <<SubSeq(s, 1, i - 1)>> \o Split(SubSeq(s, i + 1, Len(s)), c)

\* Array.prototype.join for a one-character separator
RECURSIVE Join(_, _)
Join(parts, c) ==
  IF parts = <<>> THEN <<>>
  ELSE IF Len(parts) = 1 THEN parts[1]
  ELSE parts[1] \o <<c>> \o Join(Tail(parts), c)

\* Array.prototype.filter((x) => x.length > 0)
RECURSIVE FilterNonEmpty(_)
FilterNonEmpty(xs) ==
  IF xs = <<>> THEN <<>>
  ELSE (IF Head(xs) # <<>> THEN <<Head(xs)>> ELSE <<>>) \o FilterNonEmpty(Tail(xs))

Range(xs) == {xs[i] : i \in 1..Len(xs)}

----------------------------------------------------------------------------
(* Node's posix path module *)

SEP == "/"

DOT == <<".">>

DOTDOT == <<".", ".">>

\* normalizeString: drops '' and '.', and lets '..' remove the segment before it
RECURSIVE NormalizeSegs(_, _, _)
NormalizeSegs(segs, res, allowAboveRoot) ==
  IF segs = <<>> THEN res
  ELSE LET s == Head(segs)
           rest == Tail(segs)
       IN IF s = <<>> \/ s = DOT
          THEN NormalizeSegs(rest, res, allowAboveRoot)
          ELSE IF s = DOTDOT
          THEN IF res # <<>> /\ res[Len(res)] # DOTDOT
               THEN NormalizeSegs(rest, SubSeq(res, 1, Len(res) - 1), allowAboveRoot)
               ELSE IF allowAboveRoot
               THEN NormalizeSegs(rest, Append(res, s), allowAboveRoot)
               ELSE NormalizeSegs(rest, res, allowAboveRoot)
          ELSE NormalizeSegs(rest, Append(res, s), allowAboveRoot)

\* path.normalize
PathNormalize(p) ==
  IF p = <<>> THEN DOT
  ELSE LET isAbsolute == p[1] = SEP
           trailingSeparator == p[Len(p)] = SEP
           body == Join(NormalizeSegs(Split(p, SEP), <<>>, ~isAbsolute), SEP)
       IN IF body = <<>>
          THEN (IF isAbsolute THEN <<SEP>>
                ELSE IF trailingSeparator THEN <<".", SEP>> ELSE DOT)
          ELSE (IF isAbsolute THEN <<SEP>> ELSE <<>>)
               \o body
               \o (IF trailingSeparator THEN <<SEP>> ELSE <<>>)

\* path.join(a, b)
PathJoin(a, b) ==
  IF a = <<>> /\ b = <<>> THEN DOT
  ELSE IF b = <<>> THEN PathNormalize(a)
  ELSE IF a = <<>> THEN PathNormalize(b)
  ELSE PathNormalize(a \o <<SEP>> \o b)

\* path.resolve(a, b) for an absolute a
PathResolve(a, b) ==
  LET resolvedPath == IF b # <<>> /\ b[1] = SEP THEN b
                      ELSE IF b = <<>> THEN a
                      ELSE a \o <<SEP>> \o b
  IN <<SEP>> \o Join(NormalizeSegs(Split(resolvedPath, SEP), <<>>, FALSE), SEP)

----------------------------------------------------------------------------
(* The file system the action runs on: the checkout /w and what lies       *)
(* around it.  A node is keyed by its canonical list of segments.          *)

FsDirs ==
  { <<>>, << <<"w">> >>, << <<"w">>, <<"d">> >>,
    << <<"o">> >>, << <<"w", "x">> >> }

FsFiles ==
  { << <<"w">>, <<"a">> >>, << <<"w">>, <<"c">> >>,
    << <<"w">>, <<"d">>, <<"a">> >>,
    << <<"o">>, <<"a">> >>, << <<"o">>, <<"c">> >>,
    << <<"w", "x">>, <<"a">> >> }

\* symbolic links and their targets: l leaves the checkout, i stays inside,
\* b dangles, /s is a second name of the checkout
FsLinks ==
  { << << <<"w">>, <<"l">> >>, << <<"o">> >> >>,
    << << <<"w">>, <<"i">> >>, << <<"w">>, <<"d">> >> >>,
    << << <<"w">>, <<"b">> >>, << <<"n">> >> >>,
    << << <<"s">> >>, << <<"w">> >> >> }

IsLink(segs) == \E l \in FsLinks : l[1] = segs

LinkTarget(segs) == (CHOOSE l \in FsLinks : l[1] = segs)[2]

\* longest chain of links followed before ELOOP
MaxLinks == 4

\* the canonical segments of a path, or Undefined when it does not exist
RECURSIVE Walk(_, _, _)
Walk(cur, rest, links) ==
  IF rest = <<>> THEN Some(cur)
  ELSE LET next == Append(cur, Head(rest))
       IN IF IsLink(next)
          THEN (IF links = 0 THEN Undefined
                ELSE Walk(<<>>, LinkTarget(next) \o Tail(rest), links - 1))
          ELSE IF next \in FsDirs THEN Walk(next, Tail(rest), links)
          ELSE IF next \in FsFiles /\ Tail(rest) = <<>> THEN Some(next)
          ELSE Undefined

Segments(p) == FilterNonEmpty(Split(p, SEP))

ToPath(segs) == <<SEP>> \o Join(segs, SEP)

\* fs.existsSync: follows links; a trailing separator asks for a directory
ExistsSync(p) ==
  LET r == Walk(<<>>, Segments(p), MaxLinks)
  IN /\ r # Undefined
     /\ (p[Len(p)] = SEP => r[1] \in FsDirs)

\* fs.realpathSync of an existing path
RealpathSync(p) == ToPath(Walk(<<>>, Segments(p), MaxLinks)[1])

----------------------------------------------------------------------------
(* Languages, suites and the denylist *)

go == <<"g", "o">>

csharp == <<"c", "s", "h", "a", "r", "p">>

\* the languages of the Language enumeration that the model uses
KnownLanguages == {go, csharp}

VulnerablePackage ==
  <<"q", "l", "/", "s", "r", "c", "/", "S", "e", "c", "u", "r", "i", "t", "y", " ", "F", "e", "a", "t", "u", "r", "e", "s", "/", "C", "W", "E", "-", "9", "3", "7", "/", "V", "u", "l", "n", "e", "r", "a", "b", "l", "e", "P", "a", "c", "k", "a", "g", "e", ".", "q", "l">>

MissingXFrameOptions ==
  <<"q", "l", "/", "s", "r", "c", "/", "S", "e", "c", "u", "r", "i", "t", "y", " ", "F", "e", "a", "t", "u", "r", "e", "s", "/", "C", "W", "E", "-", "4", "5", "1", "/", "M", "i", "s", "s", "i", "n", "g", "X", "F", "r", "a", "m", "e", "O", "p", "t", "i", "o", "n", "s", ".", "q", "l">>

\* DISABLED_BUILTIN_QUERIES[language] || []
DISABLED_BUILTIN_QUERIES(language) ==
  IF language = csharp THEN <<VulnerablePackage, MissingXFrameOptions>> ELSE <<>>

\* faulty variant: the denylists of all languages are applied
queryIsDisabledForAnyLanguage(language, query) ==
  \E l \in KnownLanguages :
    \E i \in 1..Len(DISABLED_BUILTIN_QUERIES(l)) :
      EndsWith(query, DISABLED_BUILTIN_QUERIES(l)[i])

queryIsDisabled(language, query) ==
  \E i \in 1..Len(DISABLED_BUILTIN_QUERIES(language)) :
    EndsWith(query, DISABLED_BUILTIN_QUERIES(language)[i])

securityExtended ==
  <<"s", "e", "c", "u", "r", "i", "t", "y", "-", "e", "x", "t", "e", "n", "d", "e", "d">>

securityAndQuality ==
  <<"s", "e", "c", "u", "r", "i", "t", "y", "-", "a", "n", "d", "-", "q", "u", "a", "l", "i", "t", "y">>

builtinSuites == <<securityExtended, securityAndQuality>>

codeScanning == <<"c", "o", "d", "e", "-", "s", "c", "a", "n", "n", "i", "n", "g">>

\* `${l}-${suiteName}.qls`
SuiteFile(l, suiteName) == l \o <<"-">> \o suiteName \o <<".", "q", "l", "s">>

----------------------------------------------------------------------------
(* Errors and the effect of a call *)

NoError == [kind |-> "none", arg |-> <<>>]

Err(kind, arg) == [kind |-> kind, arg |-> arg]

\* getQueryUsesInvalid(configFile, queryUses?): arg is the 'Found:' part
getQueryUsesInvalid(queryUses) == Err("QueryUsesInvalid", queryUses)

getLocalPathDoesNotExist(localPath) == Err("LocalPathDoesNotExist", <<localPath>>)

getLocalPathOutsideOfRepository(localPath) ==
  Err("LocalPathOutsideOfRepository", <<localPath>>)

\* what a call leaves behind: the error it threw (or none), the accumulator,
\* and the calls it made to the resolver and to the checkout utility
Eff(error, queries, resolves, checkouts) ==
  [error |-> error, queries |-> queries, resolves |-> resolves,
   checkouts |-> checkouts]

EmptyQueries == <<>>

----------------------------------------------------------------------------
(* Query Resolution Client *)

validateQueries(resolvedQueries) ==
  IF Len(resolvedQueries.noDeclaredLanguage) # 0
  THEN Err("NoDeclaredLanguage", resolvedQueries.noDeclaredLanguage)
  ELSE IF Len(resolvedQueries.multipleDeclaredLanguages) # 0
  THEN Err("MultipleDeclaredLanguages", resolvedQueries.multipleDeclaredLanguages)
  ELSE NoError

\* Object.keys(queryPaths).filter((q) => !queryIsDisabled(language, q))
RECURSIVE FilterEnabled(_, _)
FilterEnabled(language, qs) ==
  IF qs = <<>> THEN <<>>
  ELSE (IF queryIsDisabled(language, Head(qs)) THEN <<>> ELSE <<Head(qs)>>)
       \o FilterEnabled(language, Tail(qs))

\* faulty variant: a custom resolution whose search path a group of the
\* language already has is merged into that group
MergeResolvedIntoGroup(resultMap, byLanguage, extraSearchPath) ==
  [language \in (DOMAIN resultMap) \cup (DOMAIN byLanguage) |->
    LET old == IF language \in DOMAIN resultMap
               THEN resultMap[language]
               ELSE [builtin |-> <<>>, custom |-> <<>>]
    IN IF language \notin DOMAIN byLanguage THEN old
       ELSE LET queries == FilterEnabled(language, byLanguage[language])
            IN IF extraSearchPath = Undefined
               THEN [old EXCEPT !.builtin = @ \o queries]
               ELSE IF \E i \in 1..Len(old.custom) :
                         old.custom[i].searchPath = extraSearchPath[1]
               THEN [old EXCEPT !.custom =
                       [i \in 1..Len(@) |->
                          IF @[i].searchPath = extraSearchPath[1]
                          THEN [@[i] EXCEPT !.queries = @ \o queries]
                          ELSE @[i]]]
               ELSE [old EXCEPT !.custom =
                       Append(@, [searchPath |-> extraSearchPath[1],
                                  queries |-> queries])]]

\* the loop of runResolveQueries over Object.entries(resolvedQueries.byLanguage)
MergeResolved(resultMap, byLanguage, extraSearchPath) ==
  [language \in (DOMAIN resultMap) \cup (DOMAIN byLanguage) |->
    LET old == IF language \in DOMAIN resultMap
               THEN resultMap[language]
               ELSE [builtin |-> <<>>, custom |-> <<>>]
    IN IF language \notin DOMAIN byLanguage THEN old
       ELSE LET queries == FilterEnabled(language, byLanguage[language])
            IN IF extraSearchPath # Undefined
               THEN [old EXCEPT !.custom =
                       Append(@, [searchPath |-> extraSearchPath[1],
                                  queries |-> queries])]
               ELSE [old EXCEPT !.builtin = @ \o queries]]

\* faulty variant: the buckets are checked for builtin suites too
runResolveQueriesAlwaysValidated(resultMap, toResolve, extraSearchPath, resolved) ==
  LET call == [toResolve |-> toResolve, searchPath |-> extraSearchPath,
               resolved |-> resolved]
  IN IF ~resolved.ok
     THEN Eff(Err("ResolveQueriesFailed", toResolve), resultMap, <<call>>, <<>>)
     ELSE IF validateQueries(resolved) # NoError
     THEN Eff(validateQueries(resolved), resultMap, <<call>>, <<>>)
     ELSE Eff(NoError,
              MergeResolved(resultMap, resolved.byLanguage, extraSearchPath),
              <<call>>, <<>>)

\* resolved is what codeQL.resolveQueries answers (ok = FALSE: it threw)
runResolveQueries(resultMap, toResolve, extraSearchPath, resolved) ==
  LET call == [toResolve |-> toResolve, searchPath |-> extraSearchPath,
               resolved |-> resolved]
  IN IF ~resolved.ok
     THEN Eff(Err("ResolveQueriesFailed", toResolve), resultMap, <<call>>, <<>>)
     ELSE IF extraSearchPath # Undefined /\ validateQueries(resolved) # NoError
     THEN Eff(validateQueries(resolved), resultMap, <<call>>, <<>>)
     ELSE Eff(NoError,
              MergeResolved(resultMap, resolved.byLanguage, extraSearchPath),
              <<call>>, <<>>)

\* languages.map((l) => `${l}-${suiteName}.qls`)
RECURSIVE SuiteFiles(_, _)
SuiteFiles(languages, suiteName) ==
  IF languages = <<>> THEN <<>>
  ELSE <<SuiteFile(Head(languages), suiteName)>>
       \o SuiteFiles(Tail(languages), suiteName)

addDefaultQueries(languages, resultMap, resolved) ==
  runResolveQueries(resultMap, SuiteFiles(languages, codeScanning), Undefined,
                    resolved)

----------------------------------------------------------------------------
(* Query Reference Parser *)

\* faulty variant: the whitelist test is missing
addBuiltinSuiteQueriesAnyName(languages, resultMap, suiteName, resolved) ==
  runResolveQueries(resultMap, SuiteFiles(languages, suiteName), Undefined,
                    resolved)

addBuiltinSuiteQueries(languages, resultMap, suiteName, resolved) ==
  IF ~(\E i \in 1..Len(builtinSuites) : builtinSuites[i] = suiteName)
  THEN Eff(getQueryUsesInvalid(<<suiteName>>), resultMap, <<>>, <<>>)
  ELSE runResolveQueries(resultMap, SuiteFiles(languages, suiteName), Undefined,
                         resolved)

\* faulty variant: the prefix test forgets the path separator
addLocalQueriesNoSeparator(resultMap, localQueryPath, checkoutPath, resolved) ==
  LET joined == PathJoin(checkoutPath, localQueryPath)
  IN IF ~ExistsSync(joined)
     THEN Eff(getLocalPathDoesNotExist(localQueryPath), resultMap, <<>>, <<>>)
     ELSE LET absoluteQueryPath == RealpathSync(joined)
          IN IF ~StartsWith(absoluteQueryPath, RealpathSync(checkoutPath))
             THEN Eff(getLocalPathOutsideOfRepository(localQueryPath),
                      resultMap, <<>>, <<>>)
             ELSE runResolveQueries(resultMap, <<absoluteQueryPath>>,
                                    Some(checkoutPath), resolved)

addLocalQueries(resultMap, localQueryPath, checkoutPath, resolved) ==
  LET joined == PathJoin(checkoutPath, localQueryPath)
  IN IF ~ExistsSync(joined)
     THEN Eff(getLocalPathDoesNotExist(localQueryPath), resultMap, <<>>, <<>>)
     ELSE LET absoluteQueryPath == RealpathSync(joined)
          IN IF ~StartsWith(absoluteQueryPath \o <<SEP>>,
                            RealpathSync(checkoutPath) \o <<SEP>>)
             THEN Eff(getLocalPathOutsideOfRepository(localQueryPath),
                      resultMap, <<>>, <<>>)
             ELSE runResolveQueries(resultMap, <<absoluteQueryPath>>,
                                    Some(checkoutPath), resolved)

\* externalQueries.checkoutExternalRepository: where the checkout lands
checkoutExternalRepository(nwo, ref, tempDir) ==
  PathJoin(PathJoin(tempDir, nwo), ref)

\* faulty variant: the reference is cut at its last '@', whatever comes before
addRemoteQueriesLastAt(resultMap, queryUses, tempDir, ext) ==
  LET at == IF "@" \in Range(queryUses)
            THEN CHOOSE i \in 1..Len(queryUses) :
                   /\ queryUses[i] = "@"
                   /\ \A j \in (i + 1)..Len(queryUses) : queryUses[j] # "@"
            ELSE 0
  IN IF at = 0
     THEN Eff(getQueryUsesInvalid(<<queryUses>>), resultMap, <<>>, <<>>)
     ELSE LET ref == SubSeq(queryUses, at + 1, Len(queryUses))
              loc == Split(SubSeq(queryUses, 1, at - 1), "/")
          IN IF Len(loc) < 2 \/ Trim(loc[1]) = <<>> \/ Trim(loc[2]) = <<>>
             THEN Eff(getQueryUsesInvalid(<<queryUses>>), resultMap, <<>>, <<>>)
             ELSE LET nwo == loc[1] \o <<"/">> \o loc[2]
                      checkout == [nwo |-> nwo, ref |-> ref]
                  IN IF ~ext.checkoutOk
                     THEN Eff(Err("CheckoutFailed", <<queryUses>>), resultMap,
                              <<>>, <<checkout>>)
                     ELSE LET checkoutPath ==
                                checkoutExternalRepository(nwo, ref, tempDir)
                              queryPath ==
                                IF Len(loc) > 2
                                THEN PathJoin(checkoutPath,
                                       Join(SubSeq(loc, 3, Len(loc)), "/"))
                                ELSE checkoutPath
                              r == runResolveQueries(resultMap, <<queryPath>>,
                                     Some(checkoutPath), ext.resolved)
                          IN Eff(r.error, r.queries, r.resolves, <<checkout>>)

\* ext.checkoutOk = FALSE: the checkout threw
addRemoteQueries(resultMap, queryUses, tempDir, ext) ==
  LET tok == Split(queryUses, "@")
  IN IF Len(tok) # 2
     THEN Eff(getQueryUsesInvalid(<<queryUses>>), resultMap, <<>>, <<>>)
     ELSE LET ref == tok[2]
              loc == Split(tok[1], "/")
          IN IF Len(loc) < 2
             THEN Eff(getQueryUsesInvalid(<<queryUses>>), resultMap, <<>>, <<>>)
             ELSE IF Trim(loc[1]) = <<>> \/ Trim(loc[2]) = <<>>
             THEN Eff(getQueryUsesInvalid(<<queryUses>>), resultMap, <<>>, <<>>)
             ELSE LET nwo == loc[1] \o <<"/">> \o loc[2]
                      checkout == [nwo |-> nwo, ref |-> ref]
                  IN IF ~ext.checkoutOk
                     THEN Eff(Err("CheckoutFailed", <<queryUses>>), resultMap,
                              <<>>, <<checkout>>)
                     ELSE LET checkoutPath ==
                                checkoutExternalRepository(nwo, ref, tempDir)
                              queryPath ==
                                IF Len(loc) > 2
                                THEN PathJoin(checkoutPath,
                                       Join(SubSeq(loc, 3, Len(loc)), "/"))
                                ELSE checkoutPath
                              r == runResolveQueries(resultMap, <<queryPath>>,
                                     Some(checkoutPath), ext.resolved)
                          IN Eff(r.error, r.queries, r.resolves, <<checkout>>)

parseQueryUses(languages, resultMap, queryUsesIn, tempDir, checkoutPath, ext) ==
  LET queryUses == Trim(queryUsesIn)
  IN IF queryUses = <<>>
     THEN Eff(getQueryUsesInvalid(Undefined), resultMap, <<>>, <<>>)
     ELSE IF StartsWith(queryUses, <<".", "/">>)
     THEN addLocalQueries(resultMap, SubSeq(queryUses, 3, Len(queryUses)),
                          checkoutPath, ext.resolved)
     ELSE IF IndexOf(queryUses, "/") = 0 /\ IndexOf(queryUses, "@") = 0
     THEN addBuiltinSuiteQueries(languages, resultMap, queryUses, ext.resolved)
     ELSE addRemoteQueries(resultMap, queryUses, tempDir, ext)

----------------------------------------------------------------------------
(* Path Filter Validator *)

\* faulty variant: a '**' that ends the path is let through
pathStarsRegexButEnd(s) ==
  \E i \in 1..(Len(s) - 1) :
    /\ s[i] = "*"
    /\ s[i + 1] = "*"
    /\ \/ (i + 2 <= Len(s) /\ s[i + 2] # "/")
       \/ (i > 1 /\ s[i - 1] # "/")

\* pathStarsRegex = /.*(?:\*\*[^/].*|\*\*$|[^/]\*\*.*)/ found anywhere in s
pathStarsRegex(s) ==
  \E i \in 1..(Len(s) - 1) :
    /\ s[i] = "*"
    /\ s[i + 1] = "*"
    /\ \/ (i + 2 <= Len(s) /\ s[i + 2] # "/")
       \/ i + 1 = Len(s)
       \/ (i > 1 /\ s[i - 1] # "/")

\* filterPatternCharactersRegex = /.*[?+[\]!].*/
filterPatternCharactersRegex(s) ==
  \E i \in 1..Len(s) : s[i] \in {"?", "+", "[", "]", "!"}

\* faulty variant: only the first leading slash is stripped
StripOneSlash(s) ==
  IF s # <<>> /\ Head(s) = "/" THEN Tail(s) ELSE s

\* while (newPath.charAt(0) === "/") newPath = newPath.substring(1)
RECURSIVE StripLeadingSlashes(_)
StripLeadingSlashes(s) ==
  IF s # <<>> /\ Head(s) = "/" THEN StripLeadingSlashes(Tail(s)) ELSE s

PathError(kind, propertyName, originalPath) ==
  [kind |-> kind, arg |-> <<originalPath>>, property |-> propertyName]

\* faulty variant: the whole of a trailing '/**' is cut off
validateAndSanitisePathCutSlash(originalPath, propertyName) ==
  LET stripped == StripLeadingSlashes(originalPath)
      newPath == IF EndsWith(stripped, <<"/", "*", "*">>)
                 THEN SubSeq(stripped, 1, Len(stripped) - 3)
                 ELSE stripped
  IN IF newPath = <<>>
     THEN [error |-> PathError("PathEmpty", propertyName, originalPath),
           path |-> <<>>, warned |-> FALSE]
     ELSE IF pathStarsRegex(newPath)
     THEN [error |-> PathError("PathInvalidStars", propertyName, originalPath),
           path |-> <<>>, warned |-> FALSE]
     ELSE IF IndexOf(newPath, "\\") # 0
     THEN [error |-> PathError("PathBackslash", propertyName, originalPath),
           path |-> <<>>, warned |-> filterPatternCharactersRegex(newPath)]
     ELSE [error |-> NoError, path |-> newPath,
           warned |-> filterPatternCharactersRegex(newPath)]

\* the result: the error thrown (or none), the path returned, and whether
\* the unsupported-character warning was logged
validateAndSanitisePath(originalPath, propertyName) ==
  LET stripped == StripLeadingSlashes(originalPath)
      newPath == IF EndsWith(stripped, <<"/", "*", "*">>)
                 THEN SubSeq(stripped, 1, Len(stripped) - 2)
                 ELSE stripped
  IN IF newPath = <<>>
     THEN [error |-> PathError("PathEmpty", propertyName, originalPath),
           path |-> <<>>, warned |-> FALSE]
     ELSE IF pathStarsRegex(newPath)
     THEN [error |-> PathError("PathInvalidStars", propertyName, originalPath),
           path |-> <<>>, warned |-> FALSE]
     ELSE IF IndexOf(newPath, "\\") # 0
     THEN [error |-> PathError("PathBackslash", propertyName, originalPath),
           path |-> <<>>, warned |-> filterPatternCharactersRegex(newPath)]
     ELSE [error |-> NoError, path |-> newPath,
           warned |-> filterPatternCharactersRegex(newPath)]

----------------------------------------------------------------------------
(* Language Resolver *)

\* parseLanguage of languages.ts: a name of the Language enumeration, or
\* undefined
parseLanguage(language) ==
  IF language \in KnownLanguages THEN Some(language) ELSE Undefined

\* map((x) => x.trim())
RECURSIVE TrimAll(_)
TrimAll(xs) ==
  IF xs = <<>> THEN <<>> ELSE <<Trim(Head(xs))>> \o TrimAll(Tail(xs))

\* faulty variant: the names that are no supported language are kept
getLanguagesInRepoKeepAll(responseKeys, languages) ==
  languages \o responseKeys

\* getLanguagesInRepo: the supported languages of the API's answer, in its
\* order, each once
RECURSIVE getLanguagesInRepo(_, _)
getLanguagesInRepo(responseKeys, languages) ==
  IF responseKeys = <<>> THEN languages
  ELSE LET parsedLang == parseLanguage(Head(responseKeys))
       IN getLanguagesInRepo(Tail(responseKeys),
            IF parsedLang # Undefined /\ parsedLang[1] \notin Range(languages)
            THEN Append(languages, parsedLang[1])
            ELSE languages)

\* faulty variant: a language that is already there is added again
ParseLanguagesKeepAll(languages, parsedLanguages, unknownLanguages) ==
  LET known == [i \in 1..Len(languages) |-> languages[i] \in KnownLanguages]
  IN [parsed |-> parsedLanguages
                 \o FilterNonEmpty([i \in 1..Len(languages) |->
                                      IF known[i] THEN languages[i] ELSE <<>>]),
      unknown |-> unknownLanguages
                  \o FilterNonEmpty([i \in 1..Len(languages) |->
                                       IF known[i] THEN <<>> ELSE languages[i]])]

\* the loop of getLanguages that sorts the entries into parsed and unknown
RECURSIVE ParseLanguages(_, _, _)
ParseLanguages(languages, parsedLanguages, unknownLanguages) ==
  IF languages = <<>>
  THEN [parsed |-> parsedLanguages, unknown |-> unknownLanguages]
  ELSE LET parsedLanguage == parseLanguage(Head(languages))
       IN IF parsedLanguage = Undefined
          THEN ParseLanguages(Tail(languages), parsedLanguages,
                              Append(unknownLanguages, Head(languages)))
          ELSE IF parsedLanguage[1] \notin Range(parsedLanguages)
          THEN ParseLanguages(Tail(languages),
                              Append(parsedLanguages, parsedLanguage[1]),
                              unknownLanguages)
          ELSE ParseLanguages(Tail(languages), parsedLanguages, unknownLanguages)

\* languagesInput is optional; responseKeys is what the languages API lists
getLanguages(languagesInput, responseKeys) ==
  LET fromInput == FilterNonEmpty(TrimAll(Split(
                     IF languagesInput = Undefined THEN <<>>
                     ELSE languagesInput[1], ",")))
      languages == IF Len(fromInput) = 0
                   THEN getLanguagesInRepo(responseKeys, <<>>)
                   ELSE fromInput
      usedApi == Len(fromInput) = 0
  IN IF Len(languages) = 0
     THEN [error |-> Err("NoLanguages", <<>>), languages |-> <<>>,
           usedApi |-> usedApi]
     ELSE LET r == ParseLanguages(languages, <<>>, <<>>)
          IN IF Len(r.unknown) > 0
             THEN [error |-> Err("UnknownLanguages", r.unknown),
                   languages |-> <<>>, usedApi |-> usedApi]
             ELSE [error |-> NoError, languages |-> r.parsed,
                   usedApi |-> usedApi]

----------------------------------------------------------------------------
(* Run parameter 'queries' *)

\* a JavaScript string is truthy unless it is undefined or empty
Truthy(opt) == opt # Undefined /\ opt[1] # <<>>

\* queriesInput.trim().replace(/^\+/, "").split(",")
WorkflowQueries(queriesInput) ==
  LET trimmed == Trim(queriesInput)
  IN Split(IF trimmed # <<>> /\ Head(trimmed) = "+" THEN Tail(trimmed)
           ELSE trimmed, ",")

\* faulty variant: the config file queries are added whatever the run parameter is
shouldAddConfigFileQueriesAlways(queriesInput) == TRUE

shouldAddConfigFileQueries(queriesInput) ==
  IF Truthy(queriesInput)
  THEN LET trimmed == TrimStart(queriesInput[1])
       IN trimmed # <<>> /\ Head(trimmed) = "+"
  ELSE TRUE

----------------------------------------------------------------------------
(* The declarative config file, as yaml.safeLoad returns it: a value is   *)
(* the pair of its JavaScript type and its content                        *)

YStr(s) == <<"string", s>>

YBool(b) == <<"boolean", b>>

YNum(n) == <<"number", n>>

YArr(xs) == <<"array", xs>>

YObj(f) == <<"object", f>>

YNull == <<"null", <<>>>>

NAME_PROPERTY == "name"

DISABLE_DEFAULT_QUERIES_PROPERTY == "disable-default-queries"

QUERIES_PROPERTY == "queries"

QUERIES_USES_PROPERTY == "uses"

PATHS_IGNORE_PROPERTY == "paths-ignore"

PATHS_PROPERTY == "paths"

\* typeof v
TypeOf(v) == v[1]

\* v instanceof Array
IsArray(v) == v[1] = "array"

\* property in v, for a v that has properties
In(property, v) == v[1] = "object" /\ property \in DOMAIN v[2]

\* 'in' throws a TypeError on a primitive
IsPrimitive(v) == v[1] \notin {"object", "array"}

----------------------------------------------------------------------------
(* Remote Config/Repo Fetcher *)

isLocal(configPath) ==
  IF StartsWith(configPath, <<".", "/">>) THEN TRUE
  ELSE IndexOf(configPath, "@") = 0

\* the error thrown (or none) and the canonical path of the file that
\* readFileSync opens
getLocalConfig(configFile, checkoutPath) ==
  IF ~StartsWith(configFile \o <<SEP>>, checkoutPath \o <<SEP>>)
  THEN [error |-> Err("ConfigFileOutsideWorkspace", <<configFile>>),
        read |-> Undefined]
  ELSE IF ~ExistsSync(configFile)
  THEN [error |-> Err("ConfigFileDoesNotExist", <<configFile>>),
        read |-> Undefined]
  ELSE IF Walk(<<>>, Segments(configFile), MaxLinks)[1] \in FsDirs
  THEN [error |-> Err("ReadFileFailed", <<configFile>>), read |-> Undefined]
  ELSE [error |-> NoError, read |-> Some(RealpathSync(configFile))]

\* "(?<owner>[^/]+)/(?<repo>[^/]+)/(?<path>[^@]+)@(?<ref>.*)" matches
\* somewhere in configFile
RemoteFormatMatches(configFile) ==
  \E a, s1, s2, at \in 1..Len(configFile) :
    /\ a < s1 /\ s1 + 1 < s2 /\ s2 + 1 < at
    /\ configFile[s1] = "/" /\ configFile[s2] = "/" /\ configFile[at] = "@"
    /\ \A i \in a..(s1 - 1) : configFile[i] # "/"
    /\ \A i \in (s1 + 1)..(s2 - 1) : configFile[i] # "/"
    /\ \A i \in (s2 + 1)..(at - 1) : configFile[i] # "@"

\* response is what repos.getContent answers: "content", "directory" or
\* "other"
getRemoteConfig(configFile, response) ==
  IF ~RemoteFormatMatches(configFile)
  THEN Err("ConfigFileRepoFormatInvalid", <<configFile>>)
  ELSE IF response = "content" THEN NoError
  ELSE IF response = "directory"
  THEN Err("ConfigFileDirectoryGiven", <<configFile>>)
  ELSE Err("ConfigFileFormatInvalid", <<configFile>>)

----------------------------------------------------------------------------
(* Config Store *)

\* JSON.stringify of a value of the config file: a number that is not
\* finite is written as null
RECURSIVE JsonOfList(_)
JsonOfValue(v) ==
  IF v[1] = "number" /\ v[2] \in {"NaN", "Infinity"} THEN YNull
  ELSE IF v[1] = "array" THEN YArr(JsonOfList(v[2]))
  ELSE v

JsonOfList(xs) ==
  IF xs = <<>> THEN <<>> ELSE <<JsonOfValue(Head(xs))>> \o JsonOfList(Tail(xs))

JsonOfUserInput(v) ==
  IF v[1] = "object"
  THEN YObj([f \in DOMAIN v[2] |-> JsonOfValue(v[2][f])])
  ELSE JsonOfValue(v)

\* the text that saveConfig writes, as the value JSON.parse reads back
JSONStringify(config) ==
  [config EXCEPT !.originalUserInput = JsonOfUserInput(@)]

getPathToParsedConfigFile(tempDir) == PathJoin(tempDir, <<"c", "o", "n", "f", "i", "g">>)

\* getConfig: undefined when the file does not exist
getConfig(file) == IF file = Undefined THEN Undefined ELSE Some(file[1])

----------------------------------------------------------------------------
(* The run's fixed locations *)

CheckoutPath == <<"/", "w">>

TempDir == <<"/", "t">>

ToolCacheDir == <<"/", "t", "c">>

CodeQLCmd == <<"/", "c", "q">>

GitHubVersion == <<"d", "o", "t", "c", "o", "m">>

----------------------------------------------------------------------------
(* What the environment can answer *)

PlainQuery == <<"/", "p", ".", "q", "l">>

OtherQuery == <<"/", "o", ".", "q", "l">>

DisabledQuery == <<"/", "b", "/">> \o VulnerablePackage

\* ends with the file name of a denylisted query, not with its suffix
NearlyDisabledQuery == <<"/", "x", "/", "V", "u", "l", "n", "e", "r", "a", "b", "l", "e", "P", "a", "c", "k", "a", "g", "e", ".", "q", "l">>

UndeclaredQuery == <<"/", "u", ".", "q", "l">>

AmbiguousQuery == <<"/", "m", ".", "q", "l">>

Resolved(ok, byLanguage, noDeclaredLanguage, multipleDeclaredLanguages) ==
  [ok |-> ok, byLanguage |-> byLanguage,
   noDeclaredLanguage |-> noDeclaredLanguage,
   multipleDeclaredLanguages |-> multipleDeclaredLanguages]

\* one language and its query files, as a byLanguage object
ByLanguage1(l, qs) == [x \in {l} |-> qs]

ByLanguage2(qsGo, qsCsharp) ==
  [x \in {go, csharp} |-> IF x = go THEN qsGo ELSE qsCsharp]

\* answers of codeQL.resolveQueries: queries for both languages; only a
\* denylisted query for csharp; nothing but a query without a language; the
\* command failing
ResolverOutputs ==
  { Resolved(TRUE, ByLanguage2(<<PlainQuery, DisabledQuery>>,
                               <<OtherQuery, DisabledQuery>>), <<>>, <<>>),
    Resolved(TRUE, ByLanguage1(csharp, <<DisabledQuery>>), <<>>, <<>>),
    Resolved(TRUE, <<>>, <<UndeclaredQuery>>, <<>>),
    Resolved(FALSE, <<>>, <<>>, <<>>) }

ExtOutcomes ==
  {[resolved |-> r, checkoutOk |-> c] : r \in ResolverOutputs, c \in BOOLEAN}

\* Object.keys of the answers of repos.listLanguages
ApiLanguages ==
  { <<>>, <<<<"r", "u", "b", "y">>>>, <<<<"r", "u", "b", "y">>, csharp, go, csharp>> }

\* answers of repos.getContent
ContentResponses == {"content", "directory", "other"}

----------------------------------------------------------------------------
(* The inputs of a run *)

LanguagesInputs ==
  { Undefined, Some(csharp), Some(<<"g", "o", ",", "r", "u", "s", "t">>),
    Some(<<"r", "u", "s", "t", ",", " ", "g", "o", ",", ",", "s", "w", "i", "f", "t", " ", ",", "r", "u", "s", "t">>) }

QueriesInputs ==
  { Undefined, Some(<<>>), Some(<<".", "/", "a">>), Some(<<"+", ".", "/", "a">>),
    Some(<<" ", "+", "s", "e", "c", "u", "r", "i", "t", "y", "-", "e", "x", "t", "e", "n", "d", "e", "d", ",", "o", "/", "r", "@", "v">>), Some(<<".", "/", "d", ",", "n", "o", "s", "u", "c", "h">>) }

ConfigFileInputs ==
  { Undefined, Some(<<".", "/", "c">>), Some(<<".", ".", "/", "o", "/", "c">>), Some(<<"o", "/", "r", "/", "c", "@", "v">>) }

Absent == <<"absent", <<>>>>

Uses(s) == YObj([uses |-> YStr(s)])

NameOptions == { Absent, YStr(<<"n">>), YStr(<<>>), YNum("1") }

DisableDefaultQueriesOptions == { Absent, YBool(TRUE), YBool(FALSE), YStr(<<"n", "o">>) }

QueriesOptions ==
  { Absent,
    YArr(<<Uses(<<".", "/", "a">>)>>),
    YArr(<<Uses(<<"s", "e", "c", "u", "r", "i", "t", "y", "-", "a", "n", "d", "-", "q", "u", "a", "l", "i", "t", "y">>), Uses(<<".", "/", "l", "/", "a">>)>>),
    YStr(<<".", "/", "a">>),
    YArr(<<Uses(<<".", "/", "d">>), YObj([name |-> YStr(<<"n">>)])>>),
    YArr(<<YObj([uses |-> YNum("1")])>>),
    YArr(<<YStr(<<".", "/", "a">>)>>) }

PathsIgnoreOptions ==
  { Absent, YArr(<<YStr(<<"/", "d", "/", "*", "*">>)>>), YArr(<<YStr(<<>>)>>), YStr(<<"d">>) }

PathsOptions ==
  { Absent, YArr(<<YStr(<<"a">>), YStr(<<"a", "*", "*">>)>>), YArr(<<YNum("1")>>) }

OtherOptions == { Absent, YNum("NaN") }

\* the config file with the given value (or none) for each field
UserConfig(name, disable, qs, pathsIgnore, paths, other) ==
  LET all == [f \in {NAME_PROPERTY, DISABLE_DEFAULT_QUERIES_PROPERTY,
                     QUERIES_PROPERTY, PATHS_IGNORE_PROPERTY, PATHS_PROPERTY,
                     "other"} |->
                CASE f = NAME_PROPERTY -> name
                  [] f = DISABLE_DEFAULT_QUERIES_PROPERTY -> disable
                  [] f = QUERIES_PROPERTY -> qs
                  [] f = PATHS_IGNORE_PROPERTY -> pathsIgnore
                  [] f = PATHS_PROPERTY -> paths
                  [] OTHER -> other]
  IN YObj([f \in {g \in DOMAIN all : all[g] # Absent} |-> all[f]])

\* most fields that a generated config file sets
MaxFields == 2

\* the config files: every choice of values that sets at most MaxFields
\* fields, and the empty document
ConfigPool ==
  { c \in { UserConfig(n, d, q, pi, p, o) :
              n \in NameOptions, d \in DisableDefaultQueriesOptions,
              q \in QueriesOptions, pi \in PathsIgnoreOptions,
              p \in PathsOptions, o \in OtherOptions } :
      Cardinality(DOMAIN c[2]) <= MaxFields }
  \cup { YNull }

\* a Config that an earlier job left under tempDir
StaleConfig ==
  [languages |-> <<go>>,
   queries |-> ByLanguage1(go, [builtin |-> <<PlainQuery>>, custom |-> <<>>]),
   pathsIgnore |-> <<>>, paths |-> <<>>, originalUserInput |-> YObj(<<>>),
   tempDir |-> TempDir, toolCacheDir |-> ToolCacheDir,
   codeQLCmd |-> CodeQLCmd, gitHubVersion |-> GitHubVersion]

----------------------------------------------------------------------------
(* State *)

VARIABLES
  pc,              \* where initConfig stands
  languagesInput,  \* run parameter 'languages' (optional)
  queriesInput,    \* run parameter 'queries' (optional)
  configFileInput, \* run parameter 'config-file' (optional)
  parsedYAML,      \* the config file as loaded
  languages,       \* resolved languages
  queries,         \* the accumulator: language -> [builtin, custom]
  pathsIgnore,     \* validated paths-ignore
  paths,           \* validated paths
  k,               \* index of the next entry of the list being resolved
  error,           \* the error that ended the run
  resolves,        \* calls of codeQL.resolveQueries so far, with answers
  checkouts,       \* calls of checkoutExternalRepository so far
  reads,           \* canonical paths of the config files read
  savedFile,       \* content of the persisted config file (optional)
  arg,             \* the argument of the call; in a run, the API call made
  ret              \* SpecUses, SpecLocal: what the call left behind

vars ==
  <<pc, languagesInput, queriesInput, configFileInput, parsedYAML, languages,
    queries, pathsIgnore, paths, k, error, resolves, checkouts, reads,
    savedFile, arg, ret>>

hasConfigFile == Truthy(configFileInput)

\* the Config that loadConfig or getDefaultConfig returns
Config ==
  [languages |-> languages, queries |-> queries, pathsIgnore |-> pathsIgnore,
   paths |-> paths, originalUserInput |-> parsedYAML, tempDir |-> TempDir,
   toolCacheDir |-> ToolCacheDir, codeQLCmd |-> CodeQLCmd,
   gitHubVersion |-> GitHubVersion]

NotCalled == Eff(Err("pending", <<>>), EmptyQueries, <<>>, <<>>)

Init ==
  /\ pc = "init"
  /\ languagesInput \in LanguagesInputs
  /\ queriesInput \in QueriesInputs
  /\ configFileInput \in ConfigFileInputs
  /\ parsedYAML = YObj(<<>>)
  /\ languages = <<>>
  /\ queries = EmptyQueries
  /\ pathsIgnore = <<>>
  /\ paths = <<>>
  /\ k = 1
  /\ error = NoError
  /\ resolves = <<>>
  /\ checkouts = <<>>
  /\ reads = <<>>
  /\ savedFile \in {Undefined, Some(JSONStringify(StaleConfig))}
  /\ arg = <<>>
  /\ ret = NotCalled

\* a throw: the run ends with the error; nothing else changes
Throw(e) ==
  /\ pc' = "failed"
  /\ error' = e

----------------------------------------------------------------------------
(* Config Merge Orchestrator: initConfig, step by step *)

\* what follows the run parameter queries
AfterWorkflowQueries == IF hasConfigFile THEN "configQueries" ELSE "save"

\* what follows the default queries
AfterDefaultQueries ==
  IF Truthy(queriesInput) THEN "workflow" ELSE AfterWorkflowQueries

\* faulty variant: an empty name is let through
NameCheckAnyString(yaml) ==
  IF IsPrimitive(yaml) THEN Err("TypeError", <<>>)
  ELSE IF In(NAME_PROPERTY, yaml) /\ TypeOf(yaml[2][NAME_PROPERTY]) # "string"
  THEN Err("NameInvalid", <<>>)
  ELSE NoError

\* the 'name' check of loadConfig on the file just loaded
NameCheck(yaml) ==
  IF IsPrimitive(yaml) THEN Err("TypeError", <<>>)
  ELSE IF In(NAME_PROPERTY, yaml)
          /\ (TypeOf(yaml[2][NAME_PROPERTY]) # "string"
              \/ Len(yaml[2][NAME_PROPERTY][2]) = 0)
  THEN Err("NameInvalid", <<>>)
  ELSE NoError

\* initConfig up to the first await of loadConfig or getDefaultConfig: with
\* a config file, load it and check its name
LoadConfigFile ==
  /\ pc = "init"
  /\ UNCHANGED <<languagesInput, queriesInput, configFileInput, languages,
                 queries, pathsIgnore, paths, k, resolves, checkouts,
                 savedFile, arg, ret>>
  /\ IF ~hasConfigFile
     THEN /\ pc' = "languages"
          /\ UNCHANGED <<parsedYAML, error, reads>>
     ELSE IF isLocal(configFileInput[1])
     THEN LET configFile == PathResolve(CheckoutPath, configFileInput[1])
              r == getLocalConfig(configFile, CheckoutPath)
          IN IF r.error # NoError
             THEN /\ Throw(r.error)
                  /\ UNCHANGED <<parsedYAML, reads>>
             ELSE /\ reads' = Append(reads, r.read[1])
                  /\ \E yaml \in ConfigPool :
                       /\ parsedYAML' = yaml
                       /\ IF NameCheck(yaml) # NoError
                          THEN Throw(NameCheck(yaml))
                          ELSE pc' = "languages" /\ UNCHANGED error
     ELSE \E response \in ContentResponses :
            LET e == getRemoteConfig(configFileInput[1], response)
            IN IF e # NoError
               THEN /\ Throw(e)
                    /\ UNCHANGED <<parsedYAML, reads>>
               ELSE /\ UNCHANGED reads
                    /\ \E yaml \in ConfigPool :
                         /\ parsedYAML' = yaml
                         /\ IF NameCheck(yaml) # NoError
                            THEN Throw(NameCheck(yaml))
                            ELSE pc' = "languages" /\ UNCHANGED error

\* await getLanguages(...)
ResolveLanguages ==
  /\ pc = "languages"
  /\ UNCHANGED <<languagesInput, queriesInput, configFileInput, parsedYAML,
                 queries, pathsIgnore, paths, k, resolves, checkouts, reads,
                 savedFile, ret>>
  /\ \E responseKeys \in ApiLanguages :
       LET r == getLanguages(languagesInput, responseKeys)
       IN /\ arg' = <<[usedApi |-> r.usedApi,
                       responseKeys |-> IF r.usedApi THEN responseKeys
                                        ELSE <<>>]>>
          /\ IF r.error # NoError
             THEN Throw(r.error) /\ UNCHANGED languages
             ELSE /\ languages' = r.languages
                  /\ pc' = "defaults"
                  /\ UNCHANGED error

\* the disable-default-queries check and await addDefaultQueries(...);
\* getDefaultConfig always adds the default queries
AddDefaultQueries ==
  /\ pc = "defaults"
  /\ UNCHANGED <<languagesInput, queriesInput, configFileInput, parsedYAML,
                 languages, pathsIgnore, paths, k, checkouts, reads,
                 savedFile, arg, ret>>
  /\ IF /\ hasConfigFile
        /\ In(DISABLE_DEFAULT_QUERIES_PROPERTY, parsedYAML)
        /\ TypeOf(parsedYAML[2][DISABLE_DEFAULT_QUERIES_PROPERTY]) # "boolean"
     THEN /\ Throw(Err("DisableDefaultQueriesInvalid", <<>>))
          /\ UNCHANGED <<queries, resolves>>
     ELSE LET disableDefaultQueries ==
                /\ hasConfigFile
                /\ In(DISABLE_DEFAULT_QUERIES_PROPERTY, parsedYAML)
                /\ parsedYAML[2][DISABLE_DEFAULT_QUERIES_PROPERTY][2]
          IN IF disableDefaultQueries
             THEN /\ pc' = AfterDefaultQueries
                  /\ UNCHANGED <<queries, resolves, error>>
             ELSE \E resolved \in ResolverOutputs :
                    LET eff == addDefaultQueries(languages, queries, resolved)
                    IN /\ resolves' = resolves \o eff.resolves
                       /\ queries' = eff.queries
                       /\ IF eff.error # NoError
                          THEN Throw(eff.error)
                          ELSE pc' = AfterDefaultQueries /\ UNCHANGED error

\* one turn of the loop of addQueriesFromWorkflow
AddWorkflowQuery ==
  /\ pc = "workflow"
  /\ UNCHANGED <<languagesInput, queriesInput, configFileInput, parsedYAML,
                 languages, pathsIgnore, paths, reads, savedFile, arg, ret>>
  /\ LET list == WorkflowQueries(queriesInput[1])
     IN \E ext \in ExtOutcomes :
          LET eff == parseQueryUses(languages, queries, list[k], TempDir,
                                    CheckoutPath, ext)
          IN /\ resolves' = resolves \o eff.resolves
             /\ checkouts' = checkouts \o eff.checkouts
             /\ queries' = eff.queries
             /\ IF eff.error # NoError
                THEN Throw(eff.error) /\ UNCHANGED k
                ELSE IF k < Len(list)
                THEN k' = k + 1 /\ UNCHANGED <<pc, error>>
                ELSE k' = 1 /\ pc' = AfterWorkflowQueries /\ UNCHANGED error

\* the 'queries' block of loadConfig: its guard and its type check, then one
\* turn of its loop
AddConfigFileQuery ==
  /\ pc = "configQueries"
  /\ UNCHANGED <<languagesInput, queriesInput, configFileInput, parsedYAML,
                 languages, pathsIgnore, paths, reads, savedFile, arg, ret>>
  /\ IF ~(shouldAddConfigFileQueries(queriesInput)
          /\ In(QUERIES_PROPERTY, parsedYAML))
     THEN /\ pc' = "pathsIgnore"
          /\ UNCHANGED <<queries, k, error, resolves, checkouts>>
     ELSE IF ~IsArray(parsedYAML[2][QUERIES_PROPERTY])
     THEN /\ Throw(Err("QueriesInvalid", <<>>))
          /\ UNCHANGED <<queries, k, resolves, checkouts>>
     ELSE LET list == parsedYAML[2][QUERIES_PROPERTY][2]
          IN IF k > Len(list)
             THEN /\ pc' = "pathsIgnore"
                  /\ k' = 1
                  /\ UNCHANGED <<queries, error, resolves, checkouts>>
             ELSE IF IsPrimitive(list[k])
             THEN /\ Throw(Err("TypeError", <<>>))
                  /\ UNCHANGED <<queries, k, resolves, checkouts>>
             ELSE IF \/ ~In(QUERIES_USES_PROPERTY, list[k])
                     \/ TypeOf(list[k][2][QUERIES_USES_PROPERTY]) # "string"
             THEN /\ Throw(getQueryUsesInvalid(Undefined))
                  /\ UNCHANGED <<queries, k, resolves, checkouts>>
             ELSE \E ext \in ExtOutcomes :
                    LET eff == parseQueryUses(languages, queries,
                                 list[k][2][QUERIES_USES_PROPERTY][2],
                                 TempDir, CheckoutPath, ext)
                    IN /\ resolves' = resolves \o eff.resolves
                       /\ checkouts' = checkouts \o eff.checkouts
                       /\ queries' = eff.queries
                       /\ IF eff.error # NoError
                          THEN Throw(eff.error) /\ UNCHANGED k
                          ELSE k' = k + 1 /\ UNCHANGED <<pc, error>>

\* the loop over the entries of paths-ignore or paths
RECURSIVE ValidatePaths(_, _, _, _)
ValidatePaths(list, propertyName, invalidKind, done) ==
  IF list = <<>> THEN [error |-> NoError, paths |-> done]
  ELSE IF TypeOf(Head(list)) # "string" \/ Head(list)[2] = <<>>
  THEN [error |-> Err(invalidKind, <<>>), paths |-> done]
  ELSE LET r == validateAndSanitisePath(Head(list)[2], propertyName)
       IN IF r.error # NoError
          THEN [error |-> r.error, paths |-> done]
          ELSE ValidatePaths(Tail(list), propertyName, invalidKind,
                             Append(done, r.path))

\* a paths-ignore or paths block of loadConfig
PathsBlock(propertyName, invalidKind) ==
  IF ~In(propertyName, parsedYAML)
  THEN [error |-> NoError, paths |-> <<>>]
  ELSE IF ~IsArray(parsedYAML[2][propertyName])
  THEN [error |-> Err(invalidKind, <<>>), paths |-> <<>>]
  ELSE ValidatePaths(parsedYAML[2][propertyName][2], propertyName,
                     invalidKind, <<>>)

ValidatePathsIgnore ==
  /\ pc = "pathsIgnore"
  /\ UNCHANGED <<languagesInput, queriesInput, configFileInput, parsedYAML,
                 languages, queries, paths, k, resolves, checkouts, reads,
                 savedFile, arg, ret>>
  /\ LET r == PathsBlock(PATHS_IGNORE_PROPERTY, "PathsIgnoreInvalid")
     IN /\ pathsIgnore' = r.paths
        /\ IF r.error # NoError
           THEN Throw(r.error)
           ELSE pc' = "paths" /\ UNCHANGED error

ValidatePathsInclude ==
  /\ pc = "paths"
  /\ UNCHANGED <<languagesInput, queriesInput, configFileInput, parsedYAML,
                 languages, queries, pathsIgnore, k, resolves, checkouts,
                 reads, savedFile, arg, ret>>
  /\ LET r == PathsBlock(PATHS_PROPERTY, "PathsInvalid")
     IN /\ paths' = r.paths
        /\ IF r.error # NoError
           THEN Throw(r.error)
           ELSE pc' = "validate" /\ UNCHANGED error

\* the language test of the last loop of loadConfig
HasNoQueries(language) ==
  \/ language \notin DOMAIN queries
  \/ (Len(queries[language].builtin) = 0 /\ Len(queries[language].custom) = 0)

\* the last loop of loadConfig: the first language without queries throws
CheckQueriesNotEmpty ==
  /\ pc = "validate"
  /\ UNCHANGED <<languagesInput, queriesInput, configFileInput, parsedYAML,
                 languages, queries, pathsIgnore, paths, k, resolves,
                 checkouts, reads, savedFile, arg, ret>>
  /\ IF \E i \in 1..Len(languages) : HasNoQueries(languages[i])
     THEN LET i == CHOOSE i \in 1..Len(languages) :
                     /\ HasNoQueries(languages[i])
                     /\ \A j \in 1..(i - 1) : ~HasNoQueries(languages[j])
          IN Throw(Err("NoQueries", <<languages[i]>>))
     ELSE pc' = "save" /\ UNCHANGED error

\* faulty variant: the Config is persisted before the last loop of loadConfig
saveConfigBeforeValidation ==
  /\ pc = "validate"
  /\ savedFile' = Some(JSONStringify(Config))
  /\ pc' = "save"
  /\ UNCHANGED <<languagesInput, queriesInput, configFileInput, parsedYAML,
                 languages, queries, pathsIgnore, paths, k, error, resolves,
                 checkouts, reads, arg, ret>>

\* await saveConfig(config, logger), and initConfig returns
saveConfig ==
  /\ pc = "save"
  /\ savedFile' = Some(JSONStringify(Config))
  /\ pc' = "done"
  /\ UNCHANGED <<languagesInput, queriesInput, configFileInput, parsedYAML,
                 languages, queries, pathsIgnore, paths, k, error, resolves,
                 checkouts, reads, arg, ret>>

Next ==
  \/ LoadConfigFile
  \/ ResolveLanguages
  \/ AddDefaultQueries
  \/ AddWorkflowQuery
  \/ AddConfigFileQuery
  \/ ValidatePathsIgnore
  \/ ValidatePathsInclude
  \/ CheckQueriesNotEmpty
  \/ saveConfig

Spec == Init /\ [][Next]_vars

----------------------------------------------------------------------------
(* parseQueryUses on every short 'uses' string *)

UsesAlphabet == {".", "/", "@", "a", " "}

\* the examples of the reference grammar, and strings around them
UsesExamples ==
  { <<".", "/", "x", "/", "y", ".", "q", "l">>, <<"s", "e", "c", "u", "r", "i", "t", "y", "-", "e", "x", "t", "e", "n", "d", "e", "d">>, <<"s", "e", "c", "u", "r", "i", "t", "y", "-", "a", "n", "d", "-", "q", "u", "a", "l", "i", "t", "y">>,
    <<" ", "s", "e", "c", "u", "r", "i", "t", "y", "-", "e", "x", "t", "e", "n", "d", "e", "d", " ">>, <<"s", "e", "c", "u", "r", "i", "t", "y", "-", "e", "x", "t", "e", "n", "d", "e">>, <<"s", "e", "c", "u", "r", "i", "t", "y", "-", "e", "x", "t", "e", "n", "d", "e", "d", " ", "q", "l">>,
    <<"a", "/", "b", "@", "v", "1">>, <<"a", "/", "b", "/", "c", "/", "d", "@", "v", "1">>, <<"/", "b", "@", "v", "1">>, <<"a", "@", "v", "1">>, <<"a", "/", "b">>, <<"a", "/", " ", "@", "v", "1">>,
    <<"a", "@", "b", "/", "c", "@", "v", "1">>, <<"a", "/", "b", "@", "v", "1", "@", "v", "2">>, <<".", "/", "a", "@", "v", "1">>, <<"a", "/", "b", "/", ".", ".", "/", ".", ".", "/", "c", "@", "v", "1">> }

UsesInputs ==
  UNION { [1..n -> UsesAlphabet] : n \in 0..MaxUsesLen } \cup UsesExamples

\* an accumulator that already holds the default queries of go
PriorQueries ==
  ByLanguage1(go, [builtin |-> <<PlainQuery>>,
                   custom |-> <<[searchPath |-> CheckoutPath,
                                 queries |-> <<OtherQuery>>]>>])

\* the variables of initConfig while one function is called on its own
Idle ==
  /\ languagesInput = Undefined
  /\ queriesInput = Undefined
  /\ configFileInput = Undefined
  /\ parsedYAML = YObj(<<>>)
  /\ pathsIgnore = <<>>
  /\ paths = <<>>
  /\ k = 1
  /\ error = NoError
  /\ resolves = <<>>
  /\ checkouts = <<>>
  /\ reads = <<>>
  /\ savedFile = Undefined

IdleUnchanged ==
  UNCHANGED <<languagesInput, queriesInput, configFileInput, parsedYAML,
              pathsIgnore, paths, k, resolves, checkouts, reads, savedFile>>

InitUses ==
  /\ Idle
  /\ pc = "uses"
  /\ languages = <<csharp, go>>
  /\ queries \in {EmptyQueries, PriorQueries}
  /\ arg \in UsesInputs
  /\ ret = NotCalled

\* parseQueryUses(languages, codeQL, queries, arg, ...) and its return
CallParseQueryUses ==
  /\ pc = "uses"
  /\ \E ext \in ExtOutcomes :
       ret' = parseQueryUses(languages, queries, arg, TempDir, CheckoutPath, ext)
  /\ pc' = "returned"
  /\ error' = ret'.error
  /\ UNCHANGED <<languages, queries, arg>>
  /\ IdleUnchanged

NextUses == CallParseQueryUses

SpecUses == InitUses /\ [][NextUses]_vars

----------------------------------------------------------------------------
(* addLocalQueries and getLocalConfig on every short relative path *)

PathSegments ==
  { <<>>, <<".">>, <<".", ".">>, <<"a">>, <<"c">>, <<"d">>, <<"l">>, <<"i">>, <<"b">>, <<"o">>, <<"w", "x">>, <<"n">> }

LocalPaths ==
  { Join(segs, SEP) : segs \in UNION { [1..n -> PathSegments] : n \in 0..MaxSegs } }

\* the checkout under its own name and under the name of a link to it
CheckoutPaths == { CheckoutPath, <<"/", "s">> }

InitLocal ==
  /\ Idle
  /\ pc = "local"
  /\ languages = <<csharp, go>>
  /\ queries = PriorQueries
  /\ arg \in [path : LocalPaths, checkoutPath : CheckoutPaths]
  /\ ret = NotCalled

\* addLocalQueries(codeQL, queries, arg.path, arg.checkoutPath) and its return
CallAddLocalQueries ==
  /\ pc = "local"
  /\ \E resolved \in ResolverOutputs :
       ret' = addLocalQueries(queries, arg.path, arg.checkoutPath, resolved)
  /\ pc' = "localReturned"
  /\ error' = ret'.error
  /\ UNCHANGED <<languages, queries, arg>>
  /\ IdleUnchanged

\* the first lines of loadConfig for a local config file arg.path
CallGetLocalConfig ==
  /\ pc = "local"
  /\ arg.path # <<>>
  /\ isLocal(arg.path)
  /\ LET r == getLocalConfig(PathResolve(arg.checkoutPath, arg.path),
                             arg.checkoutPath)
     IN /\ error' = r.error
        /\ reads' = IF r.error = NoError THEN Append(reads, r.read[1]) ELSE reads
  /\ pc' = "configReturned"
  /\ UNCHANGED <<languagesInput, queriesInput, configFileInput, parsedYAML,
                 languages, queries, pathsIgnore, paths, k, resolves,
                 checkouts, savedFile, arg, ret>>

NextLocal == CallAddLocalQueries \/ CallGetLocalConfig

SpecLocal == InitLocal /\ [][NextLocal]_vars

----------------------------------------------------------------------------
(* runResolveQueries, several times into one accumulator *)

AnotherUndeclaredQuery == <<"/", "u", "2", ".", "q", "l">>

AnotherAmbiguousQuery == <<"/", "m", "2", ".", "q", "l">>

ByLanguageAnswers ==
  { <<>>,
    ByLanguage1(go, <<PlainQuery, DisabledQuery>>),
    ByLanguage2(<<OtherQuery, DisabledQuery>>,
                <<DisabledQuery, MissingXFrameOptions, NearlyDisabledQuery,
                  PlainQuery>>) }

NoDeclaredLanguageAnswers == { <<>>, <<UndeclaredQuery, AnotherUndeclaredQuery>> }

MultipleDeclaredLanguagesAnswers ==
  { <<>>, <<AmbiguousQuery, AnotherAmbiguousQuery>> }

ResolveAnswers ==
  { Resolved(TRUE, b, n, m) :
      b \in ByLanguageAnswers, n \in NoDeclaredLanguageAnswers,
      m \in MultipleDeclaredLanguagesAnswers }
  \cup { Resolved(FALSE, <<>>, <<>>, <<>>) }

\* no search path (a builtin suite), the checkout, a checkout of a remote
SearchPaths == { Undefined, Some(CheckoutPath), Some(<<"/", "t", "/", "o", "/", "r", "/", "v">>) }

InitResolve ==
  /\ Idle
  /\ pc = "resolve"
  /\ languages = <<csharp, go>>
  /\ queries = EmptyQueries
  /\ arg = <<>>
  /\ ret = NotCalled

\* runResolveQueries(codeQL, queries, toResolve, extraSearchPath); arg keeps
\* the accumulator and the arguments of the call, ret what it left behind
CallRunResolveQueries ==
  /\ pc = "resolve"
  /\ k <= MaxResolves
  /\ \E extraSearchPath \in SearchPaths, resolved \in ResolveAnswers :
       LET toResolve == IF extraSearchPath = Undefined
                        THEN SuiteFiles(languages, codeScanning)
                        ELSE <<extraSearchPath[1]>>
           eff == runResolveQueries(queries, toResolve, extraSearchPath, resolved)
       IN /\ arg' = <<[resultMap |-> queries, toResolve |-> toResolve,
                       searchPath |-> extraSearchPath, resolved |-> resolved]>>
          /\ ret' = eff
          /\ queries' = eff.queries
          /\ error' = eff.error
          /\ pc' = IF eff.error # NoError THEN "failed" ELSE "resolve"
          /\ resolves' = resolves \o eff.resolves
  /\ k' = k + 1
  /\ UNCHANGED <<languagesInput, queriesInput, configFileInput, parsedYAML,
                 languages, pathsIgnore, paths, checkouts, reads, savedFile>>

NextResolve == CallRunResolveQueries

SpecResolve == InitResolve /\ [][NextResolve]_vars

----------------------------------------------------------------------------
(* validateAndSanitisePath on every short path filter *)

\* longest generated path filter
MaxPathLen == 5

PathAlphabet == {"/", "*", "a", "\\", "?"}

\* the examples of the filter rules
PathExamples ==
  { <<"/", "f", "o", "o", "/", "*", "*">>, <<"f", "o", "o", "/", "*", "*", "b", "a", "r">>, <<"f", "o", "o", "/", "*", "*", "/", "b", "a", "r">>, <<"f", "o", "o", "/", "b", "a", "r">>, <<"/", "/", "f", "o", "o", "/", "*", "*", "/", "*", "*">> }

PathInputs ==
  UNION { [1..n -> PathAlphabet] : n \in 0..MaxPathLen } \cup PathExamples

InitPaths ==
  /\ Idle
  /\ pc = "path"
  /\ languages = <<>>
  /\ queries = EmptyQueries
  /\ arg \in [path : PathInputs,
              property : {PATHS_IGNORE_PROPERTY, PATHS_PROPERTY}]
  /\ ret = NotCalled

\* paths.push(validateAndSanitisePath(arg.path, arg.property, ...)), as in
\* the loops of loadConfig
CallValidateAndSanitisePath ==
  /\ pc = "path"
  /\ ret' = validateAndSanitisePath(arg.path, arg.property)
  /\ error' = ret'.error
  /\ IF ret'.error = NoError
     THEN pc' = "validated" /\ paths' = Append(paths, ret'.path)
     ELSE pc' = "failed" /\ UNCHANGED paths
  /\ UNCHANGED <<languagesInput, queriesInput, configFileInput, parsedYAML,
                 languages, queries, pathsIgnore, k, resolves, checkouts,
                 reads, savedFile, arg>>

\* the path that was returned is given to validateAndSanitisePath again
CallValidateAndSanitisePathAgain ==
  /\ pc = "validated"
  /\ ret' = validateAndSanitisePath(paths[Len(paths)], arg.property)
  /\ error' = ret'.error
  /\ IF ret'.error = NoError
     THEN pc' = "revalidated" /\ paths' = Append(paths, ret'.path)
     ELSE pc' = "failed" /\ UNCHANGED paths
  /\ UNCHANGED <<languagesInput, queriesInput, configFileInput, parsedYAML,
                 languages, queries, pathsIgnore, k, resolves, checkouts,
                 reads, savedFile, arg>>

NextPaths == CallValidateAndSanitisePath \/ CallValidateAndSanitisePathAgain

SpecPaths == InitPaths /\ [][NextPaths]_vars

----------------------------------------------------------------------------
(* getLanguages on every short list of entries and every short API answer *)

\* most entries of a generated 'languages' input, most names of a
\* generated API answer
MaxTokens == 3

\* the entries that a generated 'languages' input is made of
LanguageTokens == { go, <<" ", "c", "s", "h", "a", "r", "p">>, <<>>, <<"r", "u", "s", "t">>, <<" ">> }

\* arg.tokens joined by ',' is the 'languages' input (none without tokens);
\* arg.keys is what the languages API lists
InitLanguages ==
  /\ Idle
  /\ pc = "languages"
  /\ languages = <<>>
  /\ queries = EmptyQueries
  /\ arg \in [tokens : UNION { [1..n -> LanguageTokens] : n \in 0..MaxTokens },
              keys : UNION { [1..n -> {<<"r", "u", "b", "y">>, go, csharp}] : n \in 0..MaxTokens }]
  /\ ret = NotCalled

\* getLanguages(languagesInput, repository, apiDetails, logger)
CallGetLanguages ==
  /\ pc = "languages"
  /\ ret' = getLanguages(IF arg.tokens = <<>> THEN Undefined
                         ELSE Some(Join(arg.tokens, ",")), arg.keys)
  /\ error' = ret'.error
  /\ languages' = ret'.languages
  /\ pc' = IF ret'.error = NoError THEN "languagesReturned" ELSE "failed"
  /\ UNCHANGED <<queries, arg>>
  /\ IdleUnchanged

NextLanguages == CallGetLanguages

SpecLanguages == InitLanguages /\ [][NextLanguages]_vars

----------------------------------------------------------------------------
(* Claims about the Query Reference Parser (SpecUses) *)

NoCalls(r) == r.resolves = <<>> /\ r.checkouts = <<>>

\* the 'uses is invalid' error with its 'Found:' part, thrown before any
\* call and leaving the accumulator as it was
InvalidOutcome(r, found) ==
  /\ r.error = [kind |-> "QueryUsesInvalid", arg |-> found]
  /\ NoCalls(r)
  /\ r.queries = queries

\* what a Local reference can leave behind: one of the two local path
\* errors about the relative path, or one resolution with the checkout as
\* search path
LocalOutcome(r, relativePath) ==
  /\ r.checkouts = <<>>
  /\ \/ /\ r.error.kind \in {"LocalPathDoesNotExist",
                             "LocalPathOutsideOfRepository"}
        /\ r.error.arg = <<relativePath>>
        /\ r.resolves = <<>>
     \/ /\ r.error.kind \in {"none", "ResolveQueriesFailed",
                             "NoDeclaredLanguage", "MultipleDeclaredLanguages"}
        /\ Len(r.resolves) = 1
        /\ r.resolves[1].searchPath = Some(CheckoutPath)

\* what a whitelisted BuiltinSuite leaves behind: one resolution of the
\* suite of each language, without search path
BuiltinOutcome(r, suiteName) ==
  /\ r.checkouts = <<>>
  /\ Len(r.resolves) = 1
  /\ r.resolves[1].searchPath = Undefined
  /\ r.resolves[1].toResolve =
       [i \in 1..Len(languages) |->
          languages[i] \o <<"-">> \o suiteName \o <<".", "q", "l", "s">>]
  /\ r.error.kind \in {"none", "ResolveQueriesFailed"}

\* what a RemoteRepo reference can leave behind: the 'uses is invalid'
\* error, or a checkout followed by at most one resolution whose search path
\* is not the checkout of the analysed repository
RemoteOutcome(r, uses) ==
  \/ InvalidOutcome(r, <<uses>>)
  \/ /\ Len(r.checkouts) = 1
     /\ \/ r.resolves = <<>> /\ r.error.kind = "CheckoutFailed"
        \/ /\ Len(r.resolves) = 1
           /\ r.resolves[1].searchPath \notin {Undefined, Some(CheckoutPath)}
           /\ r.error.kind \in {"none", "ResolveQueriesFailed",
                                "NoDeclaredLanguage",
                                "MultipleDeclaredLanguages"}

\* C6: parseQueryUses puts the trimmed 'uses' string into one shape, tested
\* in this order: empty is invalid; './' and the rest is Local with the rest
\* as relative path; neither '/' nor '@' is BuiltinSuite, accepted only if
\* it is 'security-extended' or 'security-and-quality' and otherwise invalid
\* without any resolver call; everything else is RemoteRepo.
C6_UsesClassified ==
  pc = "returned" =>
    LET uses == Trim(arg)
    IN IF uses = <<>> THEN InvalidOutcome(ret, <<>>)
       ELSE IF Len(uses) >= 2 /\ uses[1] = "." /\ uses[2] = "/"
       THEN LocalOutcome(ret, SubSeq(uses, 3, Len(uses)))
       ELSE IF "/" \notin Range(uses) /\ "@" \notin Range(uses)
       THEN IF uses = <<"s", "e", "c", "u", "r", "i", "t", "y", "-", "e", "x", "t", "e", "n", "d", "e", "d">> \/ uses = <<"s", "e", "c", "u", "r", "i", "t", "y", "-", "a", "n", "d", "-", "q", "u", "a", "l", "i", "t", "y">>
            THEN BuiltinOutcome(ret, uses)
            ELSE InvalidOutcome(ret, <<uses>>)
       ELSE RemoteOutcome(ret, uses)

\* C6 witness: a bare name that is no whitelisted suite was rejected without
\* a resolver call
C6_Witness ==
  /\ pc = "returned"
  /\ arg = <<"s", "e", "c", "u", "r", "i", "t", "y", "-", "e", "x", "t", "e", "n", "d", "e">>
  /\ ret.error.kind = "QueryUsesInvalid"
  /\ ret.resolves = <<>>

\* the RemoteRepo shape of a trimmed 'uses' string
IsRemoteShape(uses) ==
  /\ uses # <<>>
  /\ ~(Len(uses) >= 2 /\ uses[1] = "." /\ uses[2] = "/")
  /\ ("/" \in Range(uses) \/ "@" \in Range(uses))

LastIndexOf(s, c) ==
  IF c \in Range(s)
  THEN CHOOSE i \in 1..Len(s) : s[i] = c /\ \A j \in (i + 1)..Len(s) : s[j] # c
  ELSE 0

Count(s, c) == Cardinality({i \in 1..Len(s) : s[i] = c})

\* what a reference split into locator and ref must leave behind: with
\* owner and repo non-empty, one checkout of owner/repo at ref and a
\* resolution of the subpath under it (of the checkout itself without
\* subpath); otherwise the 'uses is invalid' error before any checkout
SplitOutcome(r, uses, locator, ref) ==
  LET segments == Split(locator, "/")
  IN IF Len(segments) < 2 \/ Trim(segments[1]) = <<>> \/ Trim(segments[2]) = <<>>
     THEN InvalidOutcome(r, <<uses>>)
     ELSE LET nwo == segments[1] \o <<"/">> \o segments[2]
              root == checkoutExternalRepository(nwo, ref, TempDir)
              subpath == Join(SubSeq(segments, 3, Len(segments)), "/")
          IN /\ r.checkouts = <<[nwo |-> nwo, ref |-> ref]>>
             /\ \/ r.resolves = <<>> /\ r.error.kind = "CheckoutFailed"
                \/ /\ Len(r.resolves) = 1
                   /\ r.resolves[1].searchPath = Some(root)
                   /\ r.resolves[1].toResolve =
                        <<IF Len(segments) = 2 THEN root
                          ELSE PathJoin(root, subpath)>>

\* C7 as stated: a RemoteRepo reference is split on its last '@' into
\* locator and ref, so a locator may itself contain '@'.
C7_SplitOnLastAt ==
  (pc = "returned" /\ IsRemoteShape(Trim(arg))) =>
    LET uses == Trim(arg)
        at == LastIndexOf(uses, "@")
    IN IF at = 0 THEN InvalidOutcome(ret, <<uses>>)
       ELSE SplitOutcome(ret, uses, SubSeq(uses, 1, at - 1),
                         SubSeq(uses, at + 1, Len(uses)))

\* C7 amended: a RemoteRepo reference must hold exactly one '@', which
\* splits it into locator and ref; with none or with more than one it fails
\* with the 'uses is invalid' error before any checkout. The locator is
\* split on '/': owner and repo must be non-empty after trimming, the other
\* segments joined by '/' are the subpath.
C7_SplitOnOnlyAt ==
  (pc = "returned" /\ IsRemoteShape(Trim(arg))) =>
    LET uses == Trim(arg)
        at == LastIndexOf(uses, "@")
    IN IF Count(uses, "@") # 1 THEN InvalidOutcome(ret, <<uses>>)
       ELSE SplitOutcome(ret, uses, SubSeq(uses, 1, at - 1),
                         SubSeq(uses, at + 1, Len(uses)))

\* C7 witness: 'a/b/c/d@v1' was checked out as a/b at v1 and its subpath
\* c/d resolved
C7_Witness ==
  /\ pc = "returned"
  /\ arg = <<"a", "/", "b", "/", "c", "/", "d", "@", "v", "1">>
  /\ ret.checkouts = <<[nwo |-> <<"a", "/", "b">>, ref |-> <<"v", "1">>]>>
  /\ Len(ret.resolves) = 1
  /\ ret.resolves[1].toResolve = <<<<"/", "t", "/", "a", "/", "b", "/", "v", "1", "/", "c", "/", "d">>>>
  /\ ret.error = NoError

----------------------------------------------------------------------------
(* Claims about local paths (SpecLocal) *)

\* the canonical path lies in the directory tree of the checkout
InsideCheckout(canonicalPath, checkoutPath) ==
  LET root == Walk(<<>>, Segments(checkoutPath), MaxLinks)[1]
      target == Segments(canonicalPath)
  IN /\ Len(root) <= Len(target)
     /\ \A i \in 1..Len(root) : target[i] = root[i]

\* the file or directory that the joined path names exists, and where
TargetOf(path, checkoutPath) ==
  Walk(<<>>, Segments(PathJoin(checkoutPath, path)), MaxLinks)

\* C8: a Local reference whose target exists outside the checkout fails
\* with the 'outside of the repository' error, not with 'does not exist';
\* 'does not exist' is raised only when the joined path does not exist; in
\* neither case is the resolver invoked.
C8_OutsideIsNotMissing ==
  pc = "localReturned" =>
    LET exists == ExistsSync(PathJoin(arg.checkoutPath, arg.path))
        target == TargetOf(arg.path, arg.checkoutPath)
    IN /\ (ret.error.kind = "LocalPathDoesNotExist") <=> ~exists
       /\ (exists /\ ~InsideCheckout(ToPath(target[1]), arg.checkoutPath))
            => ret.error.kind = "LocalPathOutsideOfRepository"
       /\ ret.error.kind \in {"LocalPathDoesNotExist",
                              "LocalPathOutsideOfRepository"}
            => (ret.resolves = <<>> /\ ret.queries = queries)

\* C8 witness: '../o/a' exists outside the checkout and was refused as
\* outside of the repository
C8_Witness ==
  /\ pc = "localReturned"
  /\ arg.path = <<".", ".", "/", "o", "/", "a">>
  /\ ret.error = [kind |-> "LocalPathOutsideOfRepository",
                  arg |-> <<<<".", ".", "/", "o", "/", "a">>>>]

\* C9 as stated: a local query path that is handed to the resolver, and a
\* local config file that is read, both lie inside the checkout once links
\* are resolved.
C9_LocalPathsInsideCheckout ==
  /\ (pc = "localReturned" /\ ret.resolves # <<>>) =>
       /\ InsideCheckout(ret.resolves[1].toResolve[1], arg.checkoutPath)
       /\ ret.resolves[1].toResolve[1] =
            ToPath(TargetOf(arg.path, arg.checkoutPath)[1])
  /\ pc = "configReturned" =>
       \A i \in 1..Len(reads) : InsideCheckout(reads[i], arg.checkoutPath)

----------------------------------------------------------------------------
(* Claims about the Query Resolution Client (SpecResolve) *)

\* C10: with a search path, a non-empty noDeclaredLanguage or
\* multipleDeclaredLanguages bucket makes runResolveQueries fail with an
\* error that lists every file of the offending bucket, and the accumulator
\* stays as it was; without a search path the buckets are not looked at and
\* the call succeeds whatever they hold.
C10_BucketsOnlyForCustom ==
  arg # <<>> =>
    LET call == arg[1]
        noDeclared == call.resolved.noDeclaredLanguage
        multiple == call.resolved.multipleDeclaredLanguages
    IN /\ (call.resolved.ok /\ call.searchPath # Undefined
           /\ (noDeclared # <<>> \/ multiple # <<>>))
            => /\ pc = "failed"
               /\ error = IF noDeclared # <<>>
                          THEN [kind |-> "NoDeclaredLanguage",
                                arg |-> noDeclared]
                          ELSE [kind |-> "MultipleDeclaredLanguages",
                                arg |-> multiple]
               /\ queries = call.resultMap
       /\ (call.resolved.ok /\ call.searchPath = Undefined)
            => (pc = "resolve" /\ error = NoError)

\* C10 witness: a custom resolution into an accumulator that already holds
\* queries failed on two files that declare several languages, and they
\* are both listed
C10_Witness ==
  /\ pc = "failed"
  /\ arg # <<>>
  /\ arg[1].searchPath # Undefined
  /\ arg[1].resultMap # EmptyQueries
  /\ error = [kind |-> "MultipleDeclaredLanguages",
              arg |-> <<AmbiguousQuery, AnotherAmbiguousQuery>>]
  /\ queries = arg[1].resultMap

----------------------------------------------------------------------------
(* Claims about the Config Merge Orchestrator (Spec) *)

\* loadConfig or getDefaultConfig has returned its Config
Returned == pc \in {"save", "done"}

\* the config file sets disable-default-queries to true
DefaultsDisabled ==
  /\ In(DISABLE_DEFAULT_QUERIES_PROPERTY, parsedYAML)
  /\ parsedYAML[2][DISABLE_DEFAULT_QUERIES_PROPERTY] = YBool(TRUE)

\* run parameter queries are present
RPresent == queriesInput # Undefined /\ queriesInput[1] # <<>>

\* the first character of the run parameter queries that is not a blank
FirstNonBlank(s) ==
  IF \E i \in 1..Len(s) : s[i] \notin WhiteSpace
  THEN s[CHOOSE i \in 1..Len(s) :
           s[i] \notin WhiteSpace /\ \A j \in 1..(i - 1) : s[j] \in WhiteSpace]
  ELSE " "

\* the run parameter queries begin with '+' (blanks before it do not count)
RAdditive == RPresent /\ FirstNonBlank(queriesInput[1]) = "+"

DefaultSource == [kind |-> "default", uses |-> <<>>]

UsesSource(s) == [kind |-> "uses", uses |-> s]

\* R: the entries of the run parameter, in order, without the '+'
RSources ==
  IF ~RPresent THEN <<>>
  ELSE LET r == queriesInput[1]
           first == CHOOSE i \in 1..(Len(r) + 1) :
                      /\ \A j \in 1..(i - 1) : r[j] \in WhiteSpace
                      /\ (i <= Len(r) => r[i] \notin WhiteSpace)
           body == IF RAdditive THEN SubSeq(r, first + 1, Len(r)) ELSE r
           entries == Split(body, ",")
       IN [i \in 1..Len(entries) |-> UsesSource(entries[i])]

\* every entry of the 'queries' list of the config file has a string 'uses'
WellFormedQueries ==
  /\ In(QUERIES_PROPERTY, parsedYAML)
  /\ parsedYAML[2][QUERIES_PROPERTY][1] = "array"
  /\ \A i \in 1..Len(parsedYAML[2][QUERIES_PROPERTY][2]) :
       LET entry == parsedYAML[2][QUERIES_PROPERTY][2][i]
       IN /\ entry[1] = "object"
          /\ "uses" \in DOMAIN entry[2]
          /\ entry[2].uses[1] = "string"

\* C: the entries of the 'queries' list of the config file, in order
CSources ==
  IF WellFormedQueries
  THEN LET list == parsedYAML[2][QUERIES_PROPERTY][2]
       IN [i \in 1..Len(list) |-> UsesSource(list[i][2].uses[2])]
  ELSE <<>>

\* the sources that the precedence rule lets into the result
MergedSources ==
  (IF DefaultsDisabled THEN <<>> ELSE <<DefaultSource>>)
  \o RSources
  \o (IF ~RPresent \/ RAdditive THEN CSources ELSE <<>>)

\* the resolver call is the resolution of that source
FromSource(call, source) ==
  LET uses == Trim(source.uses)
  IN IF source.kind = "default"
     THEN /\ call.searchPath = Undefined
          /\ call.toResolve =
               [i \in 1..Len(languages) |-> languages[i] \o <<"-", "c", "o", "d", "e", "-", "s", "c", "a", "n", "n", "i", "n", "g", ".", "q", "l", "s">>]
     ELSE IF Len(uses) >= 2 /\ uses[1] = "." /\ uses[2] = "/"
     THEN call.searchPath = Some(CheckoutPath)
     ELSE IF "/" \notin Range(uses) /\ "@" \notin Range(uses)
     THEN /\ call.searchPath = Undefined
          /\ call.toResolve =
               [i \in 1..Len(languages) |->
                  languages[i] \o <<"-">> \o uses \o <<".", "q", "l", "s">>]
     ELSE call.searchPath \notin {Undefined, Some(CheckoutPath)}

\* the accumulator after the answers of the calls were merged in order
RECURSIVE MergeAll(_, _)
MergeAll(calls, acc) ==
  IF calls = <<>> THEN acc
  ELSE MergeAll(Tail(calls),
         MergeResolved(acc, Head(calls).resolved.byLanguage,
                       Head(calls).searchPath))

\* C1: in a run with a config file, the result is made of the default
\* queries D iff disable-default-queries is not true, of the run parameter
\* queries R whenever present, and of the config file queries C iff R is
\* absent or begins with '+': exactly these sources are resolved, in this
\* order, and the result is what their answers add up to.
C1_MergePrecedence ==
  (hasConfigFile /\ Returned) =>
    /\ Len(resolves) = Len(MergedSources)
    /\ \A i \in 1..Len(resolves) : FromSource(resolves[i], MergedSources[i])
    /\ queries = MergeAll(resolves, EmptyQueries)

\* C1 witness: R without '+' and a config file with a 'queries' list: the
\* run is done with the answers for D and R only
C1_Witness ==
  /\ pc = "done"
  /\ hasConfigFile
  /\ queriesInput = Some(<<".", "/", "a">>)
  /\ Len(CSources) = 1
  /\ ~DefaultsDisabled
  /\ Len(resolves) = 2
  /\ resolves[2].searchPath = Some(CheckoutPath)
  /\ csharp \in DOMAIN queries
  /\ Len(queries[csharp].custom) = 1

\* the query files of a language: builtin ones and those of every group
RECURSIVE GroupFiles(_)
GroupFiles(custom) ==
  IF custom = <<>> THEN 0
  ELSE Len(Head(custom).queries) + GroupFiles(Tail(custom))

FileCount(qs, language) ==
  IF language \notin DOMAIN qs THEN 0
  ELSE Len(qs[language].builtin) + GroupFiles(qs[language].custom)

\* C2 as stated: every Config that initConfig persists has at least one
\* query file, builtin or in a custom group, for each of its languages.
C2_PersistedConfigHasQueries ==
  pc = "done" =>
    LET config == getConfig(savedFile)[1]
    IN \A i \in 1..Len(config.languages) :
         FileCount(config.queries, config.languages[i]) > 0

\* C3 as stated: loadConfig does not return when a resolved language has
\* neither a builtin query file nor a query file in a custom group.
C3_LoadConfigRejectsEmptyLanguage ==
  (hasConfigFile /\ pc = "save") =>
    \A i \in 1..Len(languages) : FileCount(queries, languages[i]) > 0

\* C4: the persisted file changes only in the last step of a run in which
\* no step raised an error, languages are resolved and the final validation
\* passed, and it then holds the whole Config; a run that fails leaves the
\* file as it was.
SavedOnlyAtTheEnd ==
  savedFile' # savedFile =>
    /\ pc = "save" /\ pc' = "done"
    /\ error = NoError
    /\ languages # <<>>
    /\ hasConfigFile => \A i \in 1..Len(languages) : ~HasNoQueries(languages[i])
    /\ savedFile' = Some(JSONStringify(Config))

C4_NoPartialConfig == [][SavedOnlyAtTheEnd]_vars

\* C4 witness: the run failed at the final validation and the file that an
\* earlier job left is still there
C4_Witness ==
  /\ pc = "failed"
  /\ error.kind = "NoQueries"
  /\ resolves # <<>>
  /\ getConfig(savedFile) = Some(JSONStringify(StaleConfig))

\* a recognized field of the config file with a value of the wrong type
NameWrong ==
  /\ In(NAME_PROPERTY, parsedYAML)
  /\ parsedYAML[2][NAME_PROPERTY][1] # "string"
     \/ parsedYAML[2][NAME_PROPERTY][2] = <<>>

DisableWrong ==
  /\ In(DISABLE_DEFAULT_QUERIES_PROPERTY, parsedYAML)
  /\ parsedYAML[2][DISABLE_DEFAULT_QUERIES_PROPERTY][1] # "boolean"

QueriesWrong ==
  /\ In(QUERIES_PROPERTY, parsedYAML)
  /\ LET qs == parsedYAML[2][QUERIES_PROPERTY]
     IN \/ qs[1] # "array"
        \/ \E i \in 1..Len(qs[2]) :
             \/ qs[2][i][1] # "object"
             \/ "uses" \notin DOMAIN qs[2][i][2]
             \/ qs[2][i][2].uses[1] # "string"

PathsWrong(property) ==
  /\ In(property, parsedYAML)
  /\ LET ps == parsedYAML[2][property]
     IN \/ ps[1] # "array"
        \/ \E i \in 1..Len(ps[2]) : ps[2][i][1] # "string" \/ ps[2][i][2] = <<>>

\* an error about the type of a field is about a recognized field that has
\* the wrong type (or about a document or entry that has no fields at all)
TypeErrorsAreAboutRecognizedFields ==
  pc = "failed" =>
    /\ error.kind = "NameInvalid" => NameWrong
    /\ error.kind = "DisableDefaultQueriesInvalid" => DisableWrong
    /\ error.kind = "QueriesInvalid" => QueriesWrong
    /\ error.kind = "PathsIgnoreInvalid" => PathsWrong(PATHS_IGNORE_PROPERTY)
    /\ error.kind = "PathsInvalid" => PathsWrong(PATHS_PROPERTY)
    /\ error.kind = "TypeError" => (parsedYAML = YNull \/ QueriesWrong)

\* C5 as stated: with a recognized field of the wrong type loadConfig
\* fails, also when run parameter queries without '+' are supplied;
\* fields that are not recognized never cause a failure.
C5_WrongTypeAlwaysFails ==
  /\ (hasConfigFile /\ Returned) =>
       ~(NameWrong \/ DisableWrong \/ QueriesWrong
         \/ PathsWrong(PATHS_IGNORE_PROPERTY) \/ PathsWrong(PATHS_PROPERTY))
  /\ TypeErrorsAreAboutRecognizedFields

\* C5 amended: with a recognized field of the wrong type loadConfig fails,
\* except that 'queries' and its entries are checked only when the config
\* file queries apply, that is when run parameter queries are absent or
\* begin with '+'; fields that are not recognized never cause a failure.
C5_WrongTypeFailsWhenUsed ==
  /\ (hasConfigFile /\ Returned) =>
       ~(NameWrong \/ DisableWrong
         \/ (QueriesWrong /\ (~RPresent \/ RAdditive))
         \/ PathsWrong(PATHS_IGNORE_PROPERTY) \/ PathsWrong(PATHS_PROPERTY))
  /\ TypeErrorsAreAboutRecognizedFields

\* C5 witness: 'queries' is no list, run parameter queries begin with '+',
\* and the run failed on it
C5_Witness ==
  /\ pc = "failed"
  /\ error.kind = "QueriesInvalid"
  /\ RAdditive
  /\ parsedYAML[2][QUERIES_PROPERTY][1] = "string"

----------------------------------------------------------------------------
(* Claims about the accumulator of the Query Resolution Client (SpecResolve) *)

\* the entry of a language in the accumulator, empty when it has none
EntryOf(resultMap, language) ==
  IF language \in DOMAIN resultMap THEN resultMap[language]
  ELSE [builtin |-> <<>>, custom |-> <<>>]

IsPrefix(xs, ys) ==
  Len(xs) <= Len(ys) /\ SubSeq(ys, 1, Len(xs)) = xs

\* what one call of runResolveQueries may change in the accumulator
ResolutionFrame ==
  LET call == arg'[1]
      returned == DOMAIN call.resolved.byLanguage
  IN IF ret'.error # NoError THEN queries' = queries
     ELSE /\ DOMAIN queries' = (DOMAIN queries) \cup returned
          /\ \A l \in DOMAIN queries' :
               LET old == EntryOf(queries, l)
                   new == queries'[l]
               IN IF l \notin returned THEN new = old
                  ELSE IF call.searchPath = Undefined
                  THEN /\ new.custom = old.custom
                       /\ IsPrefix(old.builtin, new.builtin)
                       /\ \A i \in (Len(old.builtin) + 1)..Len(new.builtin) :
                            new.builtin[i] \in Range(call.resolved.byLanguage[l])
                  ELSE /\ new.builtin = old.builtin
                       /\ Len(new.custom) = Len(old.custom) + 1
                       /\ IsPrefix(old.custom, new.custom)
                       /\ new.custom[Len(new.custom)].searchPath =
                            call.searchPath[1]

\* the successful custom resolutions so far that returned the language
CustomResolutionsOf(language) ==
  { i \in 1..Len(resolves) :
      /\ resolves[i].searchPath # Undefined
      /\ resolves[i].resolved.ok
      /\ validateQueries(resolves[i].resolved) = NoError
      /\ language \in DOMAIN resolves[i].resolved.byLanguage }

GroupCount ==
  \A l \in {go, csharp} :
    Len(EntryOf(queries, l).custom) = Cardinality(CustomResolutionsOf(l))

\* C11: a builtin resolution only appends files to the builtin list of each
\* language the resolver returned and leaves the custom lists alone; a
\* custom resolution appends one new {searchPath, queries} group to each
\* returned language and changes neither the builtin lists nor an existing
\* group, even one with the same search path; so a language has as many
\* custom groups as successful custom resolutions returned it.
C11_AccumulatorFrame == [][ResolutionFrame]_vars /\ []GroupCount

\* C11 witness: after a builtin resolution, two custom resolutions with the
\* same search path left two groups for go
C11_Witness ==
  /\ go \in DOMAIN queries
  /\ queries[go].builtin # <<>>
  /\ Len(queries[go].custom) = 2
  /\ queries[go].custom[1].searchPath = queries[go].custom[2].searchPath

----------------------------------------------------------------------------
(* Claims about the Path Filter Validator (SpecPaths) *)

\* the first call of validateAndSanitisePath has returned or thrown
AfterFirstCall == pc = "validated" \/ (pc = "failed" /\ paths = <<>>)

\* a name without '/', '*' or backslash
PlainName(s) ==
  s # <<>> /\ \A i \in 1..Len(s) : s[i] \notin {"/", "*", "\\"}

OnlySlashes(s) == \A i \in 1..Len(s) : s[i] = "/"

\* the path filter without the slashes it begins with
AfterSlashes(p) ==
  LET n == Cardinality({ i \in 1..Len(p) : \A j \in 1..i : p[j] = "/" })
  IN SubSeq(p, n + 1, Len(p))

\* the path filter is s followed by '/**' for a plain name s
IsNameThenStars(p) ==
  /\ Len(p) >= 4
  /\ SubSeq(p, Len(p) - 2, Len(p)) = <<"/", "*", "*">>
  /\ PlainName(SubSeq(p, 1, Len(p) - 3))

\* C12 as stated: for every plain name s, '/s/**' returns 's', and '/**'
\* is rejected by the empty-path check.
C12_TrailingStarsCollapse ==
  AfterFirstCall =>
    /\ (arg.path # <<>> /\ Head(arg.path) = "/"
        /\ IsNameThenStars(Tail(arg.path)))
         => /\ ret.error = NoError
            /\ ret.path = SubSeq(arg.path, 2, Len(arg.path) - 3)
    /\ arg.path = <<"/", "*", "*">> => ret.error.kind = "PathEmpty"

\* C12 amended: leading '/' are all stripped and of a trailing '/**' only
\* the '**' is cut, so for every plain name s the inputs 's/**', '/s/**',
\* '//s/**' return 's/'; '/**' becomes '**' and is rejected by the wildcard
\* check; only a path made of nothing but '/' is rejected by the empty-path
\* check.
C12_TrailingStarsCut ==
  AfterFirstCall =>
    LET rest == AfterSlashes(arg.path)
    IN /\ IsNameThenStars(rest)
            => /\ ret.error = NoError
               /\ ret.path = SubSeq(rest, 1, Len(rest) - 2)
       /\ rest = <<"*", "*">> => ret.error.kind = "PathInvalidStars"
       /\ ret.error.kind = "PathEmpty" <=> OnlySlashes(arg.path)

\* C12 witness: '/foo/**' was returned as 'foo/'
C12_Witness ==
  /\ pc = "validated"
  /\ arg.path = <<"/", "f", "o", "o", "/", "*", "*">>
  /\ ret.path = <<"f", "o", "o", "/">>
  /\ paths = <<<<"f", "o", "o", "/">>>>

\* C13: path normalization is idempotent: when validateAndSanitisePath
\* accepts a path filter, it accepts its own result and returns it unchanged.
C13_NormalizeIdempotent ==
  /\ ~(pc = "failed" /\ paths # <<>>)
  /\ pc = "revalidated" =>
       /\ ret.error = NoError
       /\ paths = <<paths[1], paths[1]>>
       /\ ret.path = paths[1]

\* C13 witness: '/a/**' was returned as 'a/', and 'a/' as 'a/' again
C13_Witness ==
  /\ pc = "revalidated"
  /\ arg.path = <<"/", "a", "/", "*", "*">>
  /\ paths = <<<<"a", "/">>, <<"a", "/">>>>

\* a path filter that normalization leaves as it is
IsNormalized(p) ==
  /\ p # <<>>
  /\ Head(p) # "/"
  /\ ~(Len(p) >= 3 /\ SubSeq(p, Len(p) - 2, Len(p)) = <<"/", "*", "*">>)

\* some '**' has a neighbour on its left that is not '/'
StarsBadlyPreceded(p) ==
  \E i \in 2..(Len(p) - 1) : p[i] = "*" /\ p[i + 1] = "*" /\ p[i - 1] # "/"

\* some '**' has a neighbour on its right that is not '/'
StarsBadlyFollowed(p) ==
  \E i \in 1..(Len(p) - 2) : p[i] = "*" /\ p[i + 1] = "*" /\ p[i + 2] # "/"

StarsAtEnd(p) ==
  Len(p) >= 2 /\ p[Len(p) - 1] = "*" /\ p[Len(p)] = "*"

\* the first call returned the path filter as it was given
ReturnedUnchanged(p) ==
  (arg.path = p /\ AfterFirstCall)
    => (ret.error = NoError /\ ret.path = p)

----------------------------------------------------------------------------
(* Claims about the Language Resolver (SpecLanguages, Spec) *)

\* the characters of s without the blanks around them
Stripped(s) ==
  LET inside == { i \in 1..Len(s) : s[i] \notin WhiteSpace }
  IN IF inside = {} THEN <<>>
     ELSE LET first == CHOOSE i \in inside : \A j \in inside : i <= j
              last == CHOOSE i \in inside : \A j \in inside : j <= i
          IN [i \in 1..(last - first + 1) |-> s[first + i - 1]]

\* the entries of a list of tokens: each trimmed, the empty ones dropped
RECURSIVE EntriesOf(_)
EntriesOf(tokens) ==
  IF tokens = <<>> THEN <<>>
  ELSE (IF Stripped(Head(tokens)) = <<>> THEN <<>>
        ELSE <<Stripped(Head(tokens))>>) \o EntriesOf(Tail(tokens))

\* the names of the list that are (known = TRUE) or are not supported
\* languages, in their order
RECURSIVE Supported(_, _)
Supported(names, known) ==
  IF names = <<>> THEN <<>>
  ELSE (IF (Head(names) \in KnownLanguages) = known THEN <<Head(names)>>
        ELSE <<>>) \o Supported(Tail(names), known)

\* the list with every element kept where it is first seen
FirstSeen(xs) ==
  LET firsts == { i \in 1..Len(xs) : \A j \in 1..(i - 1) : xs[j] # xs[i] }
      nth(n) == CHOOSE i \in firsts :
                  Cardinality({ j \in firsts : j < i }) = n - 1
  IN [n \in 1..Cardinality(firsts) |-> xs[nth(n)]]

\* C15: getLanguages uses the explicit input (split on ',', entries trimmed,
\* empty ones dropped) whenever it has an entry and asks the API only
\* otherwise; the list it returns holds supported languages only, each
\* once, in the first-seen order of the explicit entries, or in the API's
\* order when auto-detected.
C15_ExplicitBeforeDetected ==
  pc \in {"languagesReturned", "failed"} =>
    LET entries == EntriesOf(arg.tokens)
        source == IF entries # <<>> THEN entries
                  ELSE Supported(arg.keys, TRUE)
    IN /\ ret.usedApi <=> entries = <<>>
       /\ pc = "languagesReturned" =>
            /\ \A i \in 1..Len(languages) : languages[i] \in KnownLanguages
            /\ \A i, j \in 1..Len(languages) :
                 languages[i] = languages[j] => i = j
            /\ languages = FirstSeen(source)

\* C15 witness: ' csharp,go, csharp' was resolved to csharp, go without
\* asking the API, which lists go first
C15_Witness ==
  /\ pc = "languagesReturned"
  /\ arg.tokens = <<<<" ", "c", "s", "h", "a", "r", "p">>, go, <<" ", "c", "s", "h", "a", "r", "p">>>>
  /\ arg.keys = <<go, csharp>>
  /\ languages = <<csharp, go>>
  /\ ~ret.usedApi

\* the pieces of s between its commas
Pieces(s) ==
  LET cuts == {0, Len(s) + 1} \cup { i \in 1..Len(s) : s[i] = "," }
      cut(n) == CHOOSE i \in cuts : Cardinality({ j \in cuts : j < i }) = n - 1
  IN [n \in 1..(Cardinality(cuts) - 1) |->
        SubSeq(s, cut(n) + 1, cut(n + 1) - 1)]

\* the explicit entries of the run parameter 'languages'
ExplicitEntries ==
  IF languagesInput = Undefined THEN <<>>
  ELSE EntriesOf(Pieces(languagesInput[1]))

\* the persisted file is absent or what an earlier job left
NothingPersisted ==
  savedFile \in {Undefined, Some(JSONStringify(StaleConfig))}

\* C16: getLanguages fails with the 'no languages' error exactly when
\* neither the explicit input nor auto-detection yields an entry, and with
\* the 'unknown languages' error, which lists every explicit entry that is
\* no supported language, exactly when there is such an entry; in both
\* cases no query resolution is started and nothing is persisted.
C16_LanguageErrors ==
  arg # <<>> =>
    LET detected == Supported(arg[1].responseKeys, TRUE)
        unknown == Supported(ExplicitEntries, FALSE)
    IN /\ error.kind = "NoLanguages"
            <=> (ExplicitEntries = <<>> /\ detected = <<>>)
       /\ error.kind = "UnknownLanguages" <=> unknown # <<>>
       /\ error.kind = "UnknownLanguages" => error.arg = unknown
       /\ error.kind \in {"NoLanguages", "UnknownLanguages"} =>
            /\ pc = "failed"
            /\ languages = <<>>
            /\ resolves = <<>>
            /\ checkouts = <<>>
            /\ queries = EmptyQueries
            /\ NothingPersisted

\* C16 witness: 'rust, go,,swift ,rust' failed with rust, swift, rust listed
\* and nothing resolved
C16_Witness ==
  /\ pc = "failed"
  /\ error = [kind |-> "UnknownLanguages",
              arg |-> <<<<"r", "u", "s", "t">>, <<"s", "w", "i", "f", "t">>, <<"r", "u", "s", "t">>>>]
  /\ arg # <<>>
  /\ resolves = <<>>

----------------------------------------------------------------------------
(* Claims about the Config Store (Spec) *)

\* C17 as stated: once initConfig has persisted its Config, getConfig
\* returns a value equal to it in every field; while no file is there,
\* getConfig returns undefined.
C17_StoreRoundTrip ==
  /\ pc = "done" => getConfig(savedFile) = Some(Config)
  /\ savedFile = Undefined => getConfig(savedFile) = Undefined

----------------------------------------------------------------------------
(* Claims about the order of the steps of a run (Spec) *)

\* the entries of the 'queries' list of the config file that come before
\* its first entry without a string 'uses'
DeclaredSources ==
  IF In(QUERIES_PROPERTY, parsedYAML)
     /\ parsedYAML[2][QUERIES_PROPERTY][1] = "array"
  THEN LET list == parsedYAML[2][QUERIES_PROPERTY][2]
           good(i) == /\ list[i][1] = "object"
                      /\ "uses" \in DOMAIN list[i][2]
                      /\ list[i][2].uses[1] = "string"
           n == Cardinality({ i \in 1..Len(list) : \A j \in 1..i : good(j) })
       IN [i \in 1..n |-> UsesSource(list[i][2].uses[2])]
  ELSE <<>>

\* the sources of a run in the order in which they are to be resolved
SourcesInOrder ==
  (IF DefaultsDisabled THEN <<>> ELSE <<DefaultSource>>)
  \o RSources
  \o (IF ~RPresent \/ RAdditive THEN DeclaredSources ELSE <<>>)

\* the accumulator after the answers of the calls that succeeded were
\* merged in the order of the calls
RECURSIVE MergeSucceeded(_, _)
MergeSucceeded(calls, acc) ==
  IF calls = <<>> THEN acc
  ELSE LET call == Head(calls)
           failed == \/ ~call.resolved.ok
                     \/ /\ call.searchPath # Undefined
                        /\ \/ call.resolved.noDeclaredLanguage # <<>>
                           \/ call.resolved.multipleDeclaredLanguages # <<>>
       IN MergeSucceeded(Tail(calls),
            IF failed THEN acc
            ELSE MergeResolved(acc, call.resolved.byLanguage, call.searchPath))

\* the calls so far are those of the first sources, one for each, and the
\* lists of each language hold their answers in that order
CallsFollowSources ==
  /\ Len(resolves) <= Len(SourcesInOrder)
  /\ \A i \in 1..Len(resolves) : FromSource(resolves[i], SourcesInOrder[i])
  /\ queries = MergeSucceeded(resolves, EmptyQueries)
  /\ resolves # <<>> => languages # <<>>

\* every language has a builtin query file or a custom group, which is what
\* the last loop of loadConfig tests
CheckPassed ==
  \A i \in 1..Len(languages) :
    /\ languages[i] \in DOMAIN queries
    /\ queries[languages[i]].builtin # <<>>
       \/ queries[languages[i]].custom # <<>>

\* a step keeps the order: languages, resolutions, paths-ignore, paths,
\* check, persist
StepInOrder ==
  /\ pc # "done"
  /\ languages' # languages => (resolves = <<>> /\ resolves' = <<>>)
  /\ resolves' # resolves =>
       /\ IsPrefix(resolves, resolves')
       /\ languages # <<>> /\ languages' = languages
       /\ pathsIgnore' = <<>> /\ paths' = <<>>
  /\ pathsIgnore' # pathsIgnore => (resolves' = resolves /\ paths' = <<>>)
  /\ paths' # paths => (resolves' = resolves /\ pathsIgnore' = pathsIgnore)
  /\ savedFile' # savedFile =>
       /\ pc' = "done"
       /\ CheckPassed
       /\ savedFile' = Some(JSONStringify(Config))
       /\ UNCHANGED <<languages, queries, pathsIgnore, paths, resolves>>

\* C19 as stated: in every run the steps happen in the order languages,
\* default suites (unless disabled), run-parameter entries in their order,
\* config-file entries in their order, paths-ignore and paths, the
\* empty-query-set check, the one persist; no resolver call is made before
\* the languages are known, and the lists of each language hold the results
\* in the order of the calls.
C19_StepsInFixedOrder == [][StepInOrder]_vars /\ []CallsFollowSources

----------------------------------------------------------------------------
(* Claims about the denylist (SpecResolve) *)

\* the path ends with a suffix that the denylist gives for the language
Denylisted(language, path) ==
  \E i \in 1..Len(DISABLED_BUILTIN_QUERIES(language)) :
    LET suffix == DISABLED_BUILTIN_QUERIES(language)[i]
    IN /\ Len(suffix) <= Len(path)
       /\ \A j \in 1..Len(suffix) :
            path[Len(path) - Len(suffix) + j] = suffix[j]

\* the query paths that the accumulator holds for the language
PathsHeld(language) ==
  IF language \notin DOMAIN queries THEN {}
  ELSE Range(queries[language].builtin)
       \cup UNION { Range(queries[language].custom[i].queries) :
                      i \in 1..Len(queries[language].custom) }

\* the query paths that the calls that succeeded returned for the language
PathsReturned(language) ==
  UNION { Range(resolves[i].resolved.byLanguage[language]) :
            i \in { n \in 1..Len(resolves) :
                      /\ resolves[n].resolved.ok
                      /\ \/ resolves[n].searchPath = Undefined
                         \/ validateQueries(resolves[n].resolved) = NoError
                      /\ language \in DOMAIN resolves[n].resolved.byLanguage } }

\* C18: after any sequence of builtin and custom resolutions the
\* accumulator holds for a language L no path that ends with a suffix
\* denylisted for L, and it holds every other path that was returned for
\* L, also one that ends with a suffix denylisted for another language
\* only.
C18_DenylistPerLanguage ==
  \A l \in KnownLanguages :
    PathsHeld(l) = { q \in PathsReturned(l) : ~Denylisted(l, q) }

\* C18 witness: VulnerablePackage.ql, denylisted for csharp, was returned
\* for both languages and is held for go only; a csharp path that ends
\* with the file name but not with the whole suffix is held
C18_Witness ==
  /\ DisabledQuery \in PathsReturned(csharp) \cap PathsReturned(go)
  /\ DisabledQuery \in PathsHeld(go)
  /\ DisabledQuery \notin PathsHeld(csharp)
  /\ NearlyDisabledQuery \in PathsHeld(csharp)

====
